---- MODULE Spec2Model ----
(***************************************************************************)
(* Response generation of matrix-gptbot: OpenAI.generate_chat_response     *)
(* (src/src/gptbot/classes/ai/openai.py), the retrying request executor    *)
(* BaseAI._request_with_retries (classes/ai/base.py) and GPTBot.call_tool  *)
(* (classes/bot.py).                                                       *)
(*                                                                         *)
(* One top-level call of generate_chat_response is modelled with its       *)
(* Python call stack: every recursive call is a frame of `stack`.  Message *)
(* dicts are objects of `heap`, and a message list is a sequence of       *)
(* object ids, so that two lists holding the same dict share it, as the    *)
(* Python lists do (original_messages = messages is an alias, and the      *)
(* slices and new lists built by the code hold the same dicts).            *)
(*                                                                         *)
(* The provider and the tools are the environment.  call_tool is invoked   *)
(* with the keywords room= and user= (openai.py:677-679); the model takes  *)
(* the call as binding to the body of GPTBot.call_tool, and the outcome    *)
(* "badcall" of a tool call is the TypeError of a call that does not bind. *)
(***************************************************************************)
EXTENDS Integers, Sequences, FiniteSets, TLC

VARIABLES
    cfg,        \* the [OpenAI] configuration section, fixed for the run
    heap,       \* message objects: dicts built by the bot, and provider message objects
    stack,      \* frames of generate_chat_response, the running call last
    status,     \* "running", "returned" or "raised": the top-level call
    returned,   \* what the top-level call returned: [text, tokens]
    provider,   \* the provider's behaviour so far (environment)
    sent,       \* the request of the latest provider dispatch (observation)
    trace,      \* observations of the chain: counters and signals seen
    budget,     \* one run of the token budgeting: _truncate and its callers
    retry,      \* one call of _request_with_retries
    toolrun,    \* the tool calls of one provider response, in both OpenAI classes
    tasks,      \* concurrent calls of generate_chat_response on one OpenAI object
    assembly,   \* one call of prepare_messages
    query,      \* one run of process_query
    callback,   \* the events event_callback has been given
    fetch       \* one call of _last_n_messages

vars ==
    <<cfg, heap, stack, status, returned, provider, sent, trace, budget, retry,
      toolrun, tasks, assembly, query, callback, fetch>>

\* the state of the entry points other than the orchestrator, the budgeting
\* and the request executor
others == <<toolrun, tasks, assembly, query, callback, fetch>>

\* the state of the entry points of the bot
entries == <<query, callback, fetch>>

----------------------------------------------------------------------------
(* Bounds of the model *)

\* frames of generate_chat_response the model lets the call stack hold
MaxFrames == 8
\* tool calls in one provider response
MaxToolCalls == 2
\* how often the provider changes the kind of answer it gives within a chain
MaxSwitches == 1
\* tool runs of one chain that return the value False
MaxFalse == 1
\* tool runs of one chain that raise StopProcessing or Handover
MaxSignals == 1

(* Program constants *)

\* openai.py:538   if count > 5
RecursionCeiling == 5
\* base.py:53      attempts: int = 5
Attempts == 5

NoModel == "None"

----------------------------------------------------------------------------
(* Configuration: openai.py:65-127 *)

\* Model: a tool-capable OpenAI model, or a model that is not
ChatModels == {"gpt-4o", "mistral"}
\* ToolModel: unset, or the router model
ToolModels == {NoModel, "gpt-3.5-turbo"}

Configs ==
    [chat_model : ChatModels, tool_model : ToolModels,
     force_tools : BOOLEAN, emulate_tools : BOOLEAN]

\* openai.py:146-147
IsToolModel(m) == m \in {"gpt-3.5-turbo", "gpt-4-turbo", "gpt-4o"}

----------------------------------------------------------------------------
(* Message objects *)

\* a message dict {"role": .., "content": ..} (and "tool_call_id" for role tool).
\* content is a str ("str") or a list of parts ("parts") with text and image parts.
Dict(role, content, text, image, tcid) ==
    [dict |-> TRUE, role |-> role, content |-> content, text |-> text,
     image |-> image, tcid |-> tcid, calls |-> <<>>]

\* choice.message: the provider's message object (not a dict), with its tool calls
ChoiceMessage(calls) ==
    [dict |-> FALSE, role |-> "assistant", content |-> "str", text |-> TRUE,
     image |-> FALSE, tcid |-> 0, calls |-> calls]

\* Histories handed to generate_chat_response by process_query (bot.py:1054-1112):
\* the system message first, the triggering message last.
PlainHistory ==
    << Dict("system", "str", TRUE, FALSE, 0),
       Dict("user", "str", TRUE, FALSE, 0) >>

\* with image support: text blocks are part lists, an image is appended to the
\* preceding block of the same role or gets a block of its own
ImageHistory ==
    << Dict("system", "str", TRUE, FALSE, 0),
       Dict("user", "parts", TRUE, TRUE, 0),
       Dict("assistant", "parts", FALSE, TRUE, 0),
       Dict("user", "parts", TRUE, FALSE, 0) >>

Histories == {PlainHistory, ImageHistory}

Ids(n) == [i \in 1..n |-> i]

\* the values of the blocks of a list of ids
Blocks(h, ids) == [i \in 1..Len(ids) |-> h[ids[i]]]

----------------------------------------------------------------------------
(* Values of result_text *)

None == [t |-> "none", n |-> 0]
Empty == [t |-> "empty", n |-> 0]
False == [t |-> "false", n |-> 0]
\* the content of the i-th dispatch's answer, by its kind
Content(kind, i) == [t |-> kind, n |-> i]

\* Python truthiness of result_text
Truthy(x) == x.t \notin {"none", "empty", "false"}

\* json_decode with an empty object, not False, for text that is no JSON
json_decode_empty_on_error(data) ==
    CASE data.t = "none" -> "raise"
      [] data.t = "directive" -> "dict_tool"
      [] OTHER -> "dict"

\* json_decode, openai.py:158-170: strips code fences, json.loads, False when
\* that raises; None has no startswith, which raises AttributeError.
\* "dict_tool": a dict with the key "tool"; "dict": any other dict.
json_decode(data) ==
    CASE data.t = "none" -> "raise"
      [] data.t = "directive" -> "dict_tool"
      [] data.t = "object" -> "dict"
      [] OTHER -> "False"


----------------------------------------------------------------------------
(* Frames of generate_chat_response *)

NoResponse == [text |-> None, calls |-> <<>>, usage |-> 0, message |-> 0]

\* a call generate_chat_response(messages, allow_override, use_tools, model):
\* openai.py:496-504; original_model = chat_model = model or self.chat_model (522)
Frame(messages, allow_override, use_tools, model) ==
    [messages |-> messages,             \* also original_messages (561: an alias)
     allow_override |-> allow_override,
     use_tools |-> use_tools,
     original_model |-> model,
     chat_model |-> model,
     out |-> <<>>,                      \* kwargs["messages"]
     tools |-> FALSE,                   \* "tools" in kwargs
     pc |-> "start",
     attempt |-> 1,                     \* current_attempt while the request is made
     response |-> NoResponse,
     tool_responses |-> <<>>,
     idx |-> 0,                         \* position in choice.message.tool_calls
     site |-> "none",                   \* the await the frame is suspended at
     result_text |-> None,
     tokens |-> 0,                      \* the token count in the return statement
     exc |-> "none"]                    \* the exception the frame is raising

Top == stack[Len(stack)]

SetTop(f) == [stack EXCEPT ![Len(stack)] = f]

Range(s) == {s[i] : i \in 1..Len(s)}

\* a recursive call that passes the model of the request, not original_model
CallWithActiveModel(caller, site, messages, allow_override, use_tools) ==
    Append(SetTop([caller EXCEPT !.pc = "await", !.site = site]),
           Frame(messages, allow_override, use_tools, caller.chat_model))

\* the recursive calls of generate_chat_response all pass model=original_model
Call(caller, site, messages, allow_override, use_tools) ==
    Append(SetTop([caller EXCEPT !.pc = "await", !.site = site]),
           Frame(messages, allow_override, use_tools, caller.original_model))

\* the call stack of the model is bounded
CanCall == Len(stack) < MaxFrames

----------------------------------------------------------------------------
(* Select model and build the request: openai.py:522-660 *)

\* openai.py:526-538: the number of frames of the function on the call stack
DepthExceeded(f) == f.use_tools /\ Len(stack) > RecursionCeiling

\* openai.py:563-568
Overrides(f) ==
    /\ f.allow_override
    /\ f.use_tools
    /\ cfg.tool_model # NoModel
    /\ ~(IsToolModel(f.chat_model) \/ cfg.force_tools)

\* openai.py:575-588: which messages go to out_messages
InOutMessages(h, id) ==
    \/ ~h[id].dict
    \/ h[id].content = "str"
    \/ h[id].text

\* openai.py:580-586: message["content"] = message_content assigns to the dict
\* the caller's list holds
StripNonText(h, ids) ==
    [o \in DOMAIN h |->
        IF o \in Range(ids) /\ h[o].dict /\ h[o].content = "parts" /\ h[o].text
        THEN [h[o] EXCEPT !.image = FALSE]
        ELSE h[o]]

OutMessages(h, ids) == SelectSeq(ids, LAMBDA id : InOutMessages(h, id))

\* openai.py:594-599
EmulatesTools(f, chat_model) ==
    /\ f.use_tools
    /\ cfg.emulate_tools
    /\ ~cfg.force_tools
    /\ ~IsToolModel(chat_model)

\* openai.py:645
SendsTools(f, chat_model) ==
    (IsToolModel(chat_model) /\ f.use_tools) \/ cfg.force_tools

\* openai.py:604-630: the tool dispatcher prompt, a new system message
DispatcherPrompt == Dict("system", "str", TRUE, FALSE, 0)

\* what the provider is sent: kwargs of chat.completions.create (635-646)
Request(f, h) ==
    [n |-> trace.dispatches + 1,
     depth |-> Len(stack),
     model |-> f.chat_model,
     tools |-> f.tools,
     use_tools |-> f.use_tools,
     allow_override |-> f.allow_override,
     messages |-> Blocks(h, f.out)]

\* openai.py:518-660, up to the request
Begin ==
    /\ status = "running"
    /\ Top.pc = "start"
    /\ LET f == Top IN
       IF DepthExceeded(f)
       THEN \* 538-547: return await self.generate_chat_response(..)
            /\ CanCall
            /\ stack' = Call(f, "guard", f.messages, FALSE, FALSE)
            /\ UNCHANGED <<heap, sent, trace>>
       ELSE LET over == Overrides(f)
                chat_model == IF over THEN cfg.tool_model ELSE f.chat_model
                h1 == IF over THEN StripNonText(heap, f.messages) ELSE heap
                out1 == IF over THEN OutMessages(heap, f.messages) ELSE f.messages
                emul == EmulatesTools(f, chat_model)
                h2 == IF emul THEN Append(h1, DispatcherPrompt) ELSE h1
                out2 == IF emul THEN <<Len(h2)>> \o out1 ELSE out1
                g == [f EXCEPT !.chat_model = chat_model, !.out = out2,
                               !.tools = SendsTools(f, chat_model),
                               !.pc = "request", !.attempt = 1]
            IN  /\ heap' = h2
                /\ stack' = SetTop(g)
                /\ sent' = Request(g, h2)
                /\ trace' = [trace EXCEPT !.dispatches = @ + 1]
    /\ UNCHANGED <<cfg, status, returned, provider, budget, retry, others>>

----------------------------------------------------------------------------
(* The provider (environment) *)

\* what choice.message holds: "text" plain text, "empty" the empty string,
\* "none" no content, "object" a JSON object without "tool", "directive" a JSON
\* object with "tool", "calls" no content and tool calls
AnswerKinds == {"text", "empty", "none", "object", "directive", "calls"}

\* the classes of error a failing request attempt raises
ErrorCodes == {"max_tokens", "connection"}

\* the provider keeps to one behaviour (a kind of answer, or a class of error) and
\* changes it at most MaxSwitches times
Switches(kind, n) ==
    IF provider.kind = "start" \/ (kind = provider.kind /\ n = provider.ncalls)
    THEN provider.switches
    ELSE provider.switches + 1

\* the answers to the request of frame f: tool calls come only when the request
\* offered tools
Answers(f) ==
    {a \in [kind : AnswerKinds, ncalls : 0..MaxToolCalls] :
        /\ (a.kind = "calls") = (a.ncalls > 0)
        /\ a.kind = "calls" => f.tools
        /\ Switches(a.kind, a.ncalls) <= MaxSwitches}

\* response.usage.total_tokens of the i-th dispatch: a power of two, so that a sum
\* of usages tells which dispatches it counts
Usage(i) == 2 ^ (i - 1)

----------------------------------------------------------------------------
(* _request_with_retries: base.py:52-76 *)

\* base.py:70-74: the attempt raises; it is logged, and after the sleep the next
\* attempt is made; base.py:76: no attempt is left
AttemptFails ==
    /\ status = "running"
    /\ Top.pc = "request"
    /\ Top.attempt <= Attempts
    /\ \E code \in ErrorCodes :
         /\ Switches(code, 0) <= MaxSwitches
         /\ provider' = [provider EXCEPT !.kind = code, !.ncalls = 0,
                                         !.switches = Switches(code, 0)]
         /\ IF Top.attempt + 1 <= Attempts
            THEN /\ stack' = SetTop([Top EXCEPT !.attempt = @ + 1])
                 /\ UNCHANGED trace
            ELSE /\ stack' = SetTop([Top EXCEPT !.attempt = 1, !.pc = "raise",
                                                !.exc = "Exception"])
                 /\ trace' = [trace EXCEPT !.error = code, !.failed = @ + 1]
    /\ UNCHANGED <<cfg, heap, status, returned, sent, budget, retry, others>>

----------------------------------------------------------------------------
(* Interpret the response: openai.py:666-673, 763-764, 843-888 *)

\* the flattening loop without the change of role
FlattenKeepingRoles(h, ids) == h

\* openai.py:719-733 and 854-867: new_message = message is the same dict, so the
\* role is changed, and tool_call_id deleted, in the dict the caller's list holds
Flatten(h, ids) ==
    [o \in DOMAIN h |->
        IF o \in Range(ids) /\ h[o].dict /\ h[o].role = "tool"
        THEN [h[o] EXCEPT !.role = "system", !.tcid = 0]
        ELSE h[o]]

\* messages that are not dicts are skipped (730-731, 864-865)
NewMessages(h, ids) == SelectSeq(ids, LAMBDA id : h[id].dict)

\* the return statement without additional_tokens
ReturnTextOwnUsage(f, text, additional_tokens) ==
    [f EXCEPT !.pc = "return", !.result_text = text, !.tokens = f.response.usage]

\* openai.py:882-888
ReturnText(f, text, additional_tokens) ==
    [f EXCEPT !.pc = "return", !.result_text = text,
              !.tokens = f.response.usage + additional_tokens]

Raise(f, exc) == [f EXCEPT !.pc = "raise", !.exc = exc]

\* base.py:68-69 the attempt succeeds; openai.py:666-673 and the branch taken
Respond ==
    /\ status = "running"
    /\ Top.pc = "request"
    /\ Top.attempt <= Attempts
    /\ \E a \in Answers(Top) :
        LET i == trace.dispatches
            text == CASE a.kind = "calls" -> None
                      [] a.kind = "none" -> None
                      [] a.kind = "empty" -> Empty
                      [] OTHER -> Content(a.kind, i)
            calls == [k \in 1..a.ncalls |-> trace.calls + k]
            h1 == Append(heap, ChoiceMessage(calls))
            f == [Top EXCEPT !.attempt = 1,
                             !.response =
                                 [text |-> text, calls |-> calls, usage |-> Usage(i),
                                  message |-> Len(h1)]]
            decoded == json_decode(text)
        IN  /\ provider' = [provider EXCEPT !.kind = a.kind, !.ncalls = a.ncalls,
                                            !.switches = Switches(a.kind, a.ncalls),
                                            !.n = i]
            /\ trace' = [trace EXCEPT !.calls = @ + a.ncalls,
                                      !.usage = @ + Usage(i)]
            /\ IF ~Truthy(text) /\ calls # <<>>
               THEN \* 673-675: the loop over the tool calls starts
                    /\ heap' = h1
                    /\ stack' = SetTop([f EXCEPT !.pc = "tools", !.idx = 1,
                                                !.tool_responses = <<>>])
               ELSE IF decoded = "raise"
               THEN \* 763: json_decode(None)
                    /\ heap' = h1
                    /\ stack' = SetTop(Raise(f, "AttributeError"))
               ELSE IF decoded = "dict_tool"
               THEN \* 764-786: the emulated tool call is made
                    /\ heap' = h1
                    /\ stack' = SetTop([f EXCEPT !.pc = "emulated"])
               ELSE IF decoded = "dict"
               THEN \* 843-851
                    /\ CanCall
                    /\ heap' = h1
                    /\ stack' = Call(f, "add", f.messages, FALSE, FALSE)
               ELSE IF f.original_model # f.chat_model
               THEN \* 853-875: use_tools is not passed
                    /\ CanCall
                    /\ heap' = Flatten(h1, f.messages)
                    /\ stack' = Call(f, "add", NewMessages(h1, f.messages),
                                     FALSE, TRUE)
               ELSE \* 877-888
                    /\ heap' = h1
                    /\ stack' = SetTop(ReturnText(f, text, 0))
    /\ UNCHANGED <<cfg, status, returned, sent, budget, retry, others>>

----------------------------------------------------------------------------
(* Tools: bot.py:350-373 and openai.py:673-713, 764-827 *)

\* what running a tool does: "text" run() returns a string, "false" it returns
\* False, "error" it raises an ordinary exception, "unknown" the name is not in
\* TOOLS, "stop" it raises StopProcessing(answer), "stop_none" StopProcessing(),
\* "handover" it raises Handover, "badargs" the arguments are not JSON,
\* "badcall" the call itself raises TypeError
ToolOutcomes ==
    {"text", "false", "error", "unknown", "stop", "stop_none", "handover", "badargs",
     "badcall"}

Signals == {"stop", "stop_none", "handover"}

\* the answer a StopProcessing carries
StopAnswer == [t |-> "stop", n |-> 0]

\* what a call gives: a returned value, or a raised exception and its argument
Returns(value) == [raises |-> "none", value |-> value]
Raises(exc, arg) == [raises |-> exc, value |-> arg]

\* openai.py:689 and 797: e.args[0] if e.args else False
Carried(r) == IF r.value = "none" THEN False ELSE StopAnswer

\* GPTBot.call_tool, bot.py:350-373.  json.loads of the arguments is outside the
\* try (358); KeyError gives "Error: Tool not found" (367-369); any other
\* Exception, StopProcessing and Handover among them (tools/base.py:15-21 derive
\* both from Exception), gives "Error: Something went wrong" (371-373)
call_tool(outcome) ==
    CASE outcome = "badargs" -> Raises("JSONDecodeError", "none")
      [] outcome = "badcall" -> Raises("TypeError", "none")
      [] outcome = "text" -> Returns("text")
      [] outcome = "false" -> Returns("False")
      [] outcome = "unknown" -> Returns("Error: Tool not found")
      [] OTHER -> Returns("Error: Something went wrong")

\* the tool runs the environment may choose: at most MaxFalse return False, at
\* most MaxSignals raise StopProcessing or Handover
MayRun(outcome) ==
    /\ outcome = "false" => trace.falses < MaxFalse
    /\ outcome \in Signals => trace.signals < MaxSignals

\* what is kept of the tool runs: the first signal a tool of the chain raised
Seen(outcome) ==
    IF outcome \in Signals
    THEN [trace EXCEPT !.signals = @ + 1,
                       !.signal = IF @ # "none" THEN @
                                  ELSE IF outcome = "handover" THEN "Handover"
                                  ELSE "StopProcessing"]
    ELSE [trace EXCEPT !.falses = IF outcome = "false" THEN @ + 1 ELSE @]

\* the splice with the results after the triggering message
SpliceAfterTrigger(original_messages, message, tool_responses) ==
    original_messages \o <<message>> \o tool_responses

\* the splice with the response and the results in front of the history
SpliceInFront(original_messages, message, tool_responses) ==
    <<message>> \o tool_responses \o original_messages

\* openai.py:705-710 and 813-818
Splice(original_messages, message, tool_responses) ==
    SubSeq(original_messages, 1, Len(original_messages) - 1)
        \o <<message>> \o tool_responses
        \o SubSeq(original_messages, Len(original_messages), Len(original_messages))

\* a loop that feeds back only what a tool itself returned, not the texts
\* call_tool puts in the place of an exception
FedBackUnlessError(r) ==
    r.raises = "none" /\ r.value \in {"text"}

\* openai.py:680, 788: if tool_response is not False
FedBack(r) == r.raises = "none" /\ r.value # "False"

\* the recursive call made inside the loop, after each tool call
AfterEachToolCall(f) == TRUE

\* openai.py:675, 700: the for loop has run its last iteration
LastToolCall(f) == f.idx = Len(f.response.calls)

\* openai.py:675-713: one tool call of the response; after the last one the
\* results are spliced in and the function calls itself
RunToolCall ==
    /\ status = "running"
    /\ Top.pc = "tools"
    /\ \E outcome \in ToolOutcomes :
        LET f == Top
            tool_call == f.response.calls[f.idx]
            r == call_tool(outcome)
            appends == FedBack(r)
            h1 == IF appends
                  THEN Append(heap, Dict("tool", "str", TRUE, FALSE, tool_call))
                  ELSE heap
            g == [f EXCEPT !.tool_responses =
                               IF appends THEN Append(@, Len(h1)) ELSE @,
                           !.idx = @ + 1]
            last == LastToolCall(f)
        IN  /\ MayRun(outcome)
            /\ trace' = Seen(outcome)
            /\ IF r.raises = "StopProcessing"
               THEN \* 688-689
                    /\ heap' = heap
                    /\ stack' = SetTop([f EXCEPT !.pc = "return",
                                                !.result_text = Carried(r),
                                                !.tokens = 0])
               ELSE IF r.raises = "Handover"
               THEN \* 690-698
                    /\ CanCall
                    /\ heap' = heap
                    /\ stack' = Call(f, "handover", f.messages, FALSE, FALSE)
               ELSE IF r.raises # "none"
               THEN /\ heap' = heap
                    /\ stack' = SetTop(Raise(f, r.raises))
               ELSE IF ~last
               THEN /\ heap' = h1
                    /\ stack' = SetTop(g)
               ELSE IF g.tool_responses = <<>>
               THEN \* 700-702
                    /\ heap' = h1
                    /\ stack' = SetTop(ReturnText(g, False, 0))
               ELSE \* 704-713
                    /\ CanCall
                    /\ heap' = h1
                    /\ stack' = Call(g, "native",
                                     Splice(g.messages, g.response.message,
                                            g.tool_responses),
                                     TRUE, TRUE)
    /\ UNCHANGED <<cfg, status, returned, provider, sent, budget, retry, others>>

\* openai.py:764-827: the tool of a JSON directive; its arguments are
\* json.dumps of the parameters; tool_responses is assigned only when the
\* response is not False (790), and read at 808
RunEmulatedTool ==
    /\ status = "running"
    /\ Top.pc = "emulated"
    /\ \E outcome \in ToolOutcomes \ {"badargs"} :
        LET f == Top
            r == call_tool(outcome)
            h1 == Append(heap, Dict("system", "str", TRUE, FALSE, 0))
        IN  /\ MayRun(outcome)
            /\ trace' = Seen(outcome)
            /\ IF r.raises = "StopProcessing"
               THEN \* 796-797
                    /\ heap' = heap
                    /\ stack' = SetTop([f EXCEPT !.pc = "return",
                                                !.result_text = Carried(r),
                                                !.tokens = 0])
               ELSE IF r.raises = "Handover"
               THEN \* 798-806
                    /\ CanCall
                    /\ heap' = heap
                    /\ stack' = Call(f, "handover", f.messages, FALSE, FALSE)
               ELSE IF r.raises # "none"
               THEN /\ heap' = heap
                    /\ stack' = SetTop(Raise(f, r.raises))
               ELSE IF r.value = "False"
               THEN \* 808: tool_responses is not bound
                    /\ heap' = heap
                    /\ stack' = SetTop(Raise(f, "UnboundLocalError"))
               ELSE \* 812-827
                    /\ CanCall
                    /\ heap' = h1
                    /\ stack' = Call([f EXCEPT !.tool_responses = <<Len(h1)>>],
                                     "emulated",
                                     Splice(f.messages, f.response.message,
                                            <<Len(h1)>>),
                                     TRUE, TRUE)
    /\ UNCHANGED <<cfg, status, returned, provider, sent, budget, retry, others>>

----------------------------------------------------------------------------
(* Returns and exceptions *)

Caller == stack[Len(stack) - 1]

Resume(f) == Append(SubSeq(stack, 1, Len(stack) - 2), f)

\* the call returns (text, tokens): to process_query, or to the await of the
\* calling frame.  "return await" (540, 691, 799) returns the pair as it is; the
\* other calls assign it to result_text, additional_tokens and go on to 877-888
Return ==
    /\ status = "running"
    /\ Top.pc = "return"
    /\ IF Len(stack) = 1
       THEN /\ status' = "returned"
            /\ returned' = [text |-> Top.result_text, tokens |-> Top.tokens]
            /\ stack' = <<>>
       ELSE /\ stack' = Resume(
                 IF Caller.site \in {"guard", "handover"}
                 THEN [Caller EXCEPT !.pc = "return",
                                     !.result_text = Top.result_text,
                                     !.tokens = Top.tokens]
                 ELSE ReturnText(Caller, Top.result_text, Top.tokens))
            /\ UNCHANGED <<status, returned>>
    /\ UNCHANGED <<cfg, heap, provider, sent, trace, budget, retry, others>>

IsAPIError(exc) == exc \in {"APIError", "APIError.max_tokens"}

\* what the calling frame does with an exception of the call it awaits:
\* 714-761 around the call at 711, 747-759 around the call at 738, 828-842
\* around the call at 822; the other calls are in no try
Handler(site, exc) ==
    CASE site = "native" /\ exc = "APIError.max_tokens" -> "flatten"
      [] site = "fallback" /\ exc = "APIError.max_tokens" -> "replay"
      [] site = "fallback" /\ IsAPIError(exc) -> "pass"
      [] site = "emulated" /\ exc = "APIError.max_tokens" -> "replay"
      [] OTHER -> "raise"

\* the frame nearest to the top whose await is in a try that handles exc; 0 when
\* there is none
Catcher(exc) ==
    LET S == {k \in 1..(Len(stack) - 1) : Handler(stack[k].site, exc) # "raise"}
    IN  IF S = {} THEN 0 ELSE CHOOSE k \in S : \A j \in S : j <= k

\* an exception leaves the call: it passes the frames that do not handle it and
\* reaches process_query, or a frame that handles it
Propagate ==
    /\ status = "running"
    /\ Top.pc = "raise"
    /\ LET k == Catcher(Top.exc) IN
       IF k = 0
       THEN /\ status' = "raised"
            /\ stack' = <<>>
            /\ heap' = heap
       ELSE LET f == stack[k]
                h == Handler(f.site, Top.exc)
                below == SubSeq(stack, 1, k - 1)
            IN  /\ UNCHANGED status
                /\ IF h = "flatten"
                   THEN \* 719-745
                        /\ heap' = Flatten(heap, f.messages)
                        /\ stack' = below \o
                                     << [f EXCEPT !.site = "fallback"],
                                        Frame(NewMessages(heap, f.messages),
                                              FALSE, FALSE, f.original_model) >>
                   ELSE IF h = "replay"
                   THEN \* 749-759, 830-840
                        /\ heap' = heap
                        /\ stack' = below \o
                                     << [f EXCEPT !.site = "last"],
                                        Frame(f.messages, FALSE, FALSE,
                                              f.original_model) >>
                   ELSE \* 747-748: the handler does nothing
                        /\ heap' = heap
                        /\ stack' = Append(below, ReturnText(f, f.result_text, 0))
    /\ UNCHANGED <<cfg, returned, provider, sent, trace, budget, retry, others>>

----------------------------------------------------------------------------
(* The top-level call: bot.py:1109-1112 *)

\* no budgeting and no request executor is under way
NoBudget == [pc |-> "none"]
NoRetry == [pc |-> "none"]
NoToolRun == [pc |-> "none"]
NoTasks == [pc |-> "none"]
NoAssembly == [pc |-> "none"]
NoQuery == [pc |-> "none"]
NoCallback == [pc |-> "none"]
NoFetch == [pc |-> "none"]

\* no entry point of the bot is running
Unentered == query = NoQuery /\ callback = NoCallback /\ fetch = NoFetch

NoRequest ==
    [n |-> 0, depth |-> 0, model |-> NoModel, tools |-> FALSE, use_tools |-> FALSE,
     allow_override |-> FALSE, messages |-> <<>>]

Init ==
    /\ cfg \in Configs
    /\ \E history \in Histories :
         /\ heap = history
         /\ stack = <<Frame(Ids(Len(history)), TRUE, TRUE, cfg.chat_model)>>
         /\ trace = [dispatches |-> 0, usage |-> 0, calls |-> 0, falses |-> 0,
                     error |-> "none", failed |-> 0, signals |-> 0, signal |-> "none",
                     history |-> history]
    /\ status = "running"
    /\ returned = [text |-> None, tokens |-> 0]
    /\ provider = [kind |-> "start", ncalls |-> 0, switches |-> 0, n |-> 0]
    /\ sent = NoRequest
    /\ budget = NoBudget
    /\ retry = NoRetry
    /\ toolrun = NoToolRun
    /\ tasks = NoTasks
    /\ assembly = NoAssembly
    /\ Unentered

Next ==
    \/ Begin
    \/ AttemptFails
    \/ Respond
    \/ RunToolCall
    \/ RunEmulatedTool
    \/ Return
    \/ Propagate

Spec == Init /\ [][Next]_vars

----------------------------------------------------------------------------
(* Properties of one top-level call *)

\* the latest dispatch was answered with text that is no JSON
DirectText == provider.kind = "text" /\ provider.n = trace.dispatches

\* the object id of the triggering message: the last block of the history
TriggerId == Len(trace.history)

\* C1: for every behaviour of the provider and of the tools, one top-level call
\* returns after at most 6 provider dispatches.
C1_AtMostSixDispatches == trace.dispatches <= 6

\* C2: once a call has found the recursion depth above the ceiling, every
\* recursive call made after it runs with use_tools and allow_override false.
C2_NoToolsAfterDepthGuard ==
    \A k \in 1..Len(stack) :
        stack[k].site = "guard" =>
            \A j \in (k + 1)..Len(stack) :
                ~stack[j].use_tools /\ ~stack[j].allow_override

C4_HandoverAnswersFromOriginalHistory ==
    (trace.signal = "Handover" /\ status = "returned") =>
        /\ ~sent.use_tools
        /\ sent.messages = trace.history

\* C5: after a tool raised Handover the function calls itself exactly once and
\* no tool is run for the rest of the top-level call.
C5_NoToolRunsAfterHandover ==
    (trace.signal = "Handover" /\ status = "running") =>
        /\ Top.pc \notin {"tools", "emulated"}
        /\ \/ Top.pc = "return"
           \/ \E k \in 1..Len(stack) :
                  stack[k].site = "handover" /\ Len(stack) <= k + 1

\* C6: when a tool run raises StopProcessing, the signal reaches
\* generate_chat_response, which returns the carried answer (or False) at once as
\* the result of the chain: no other tool call is run, no dispatch is made.
C6_StopProcessingEndsTheChain ==
    trace.signal = "StopProcessing" =>
        /\ status # "raised"
        /\ status = "returned" => returned.text \in {StopAnswer, False}
        /\ status = "running" =>
               /\ Top.pc = "return"
               /\ Top.result_text \in {StopAnswer, False}

C8_DispatchIsExactlyTheSplice ==
    \A j \in 2..Len(stack) :
        LET c == stack[j - 1]
            f == stack[j]
            n == Len(c.messages)
        IN  (c.site \in {"native", "emulated"} /\ f.pc # "start") =>
                f.out = SubSeq(c.messages, 1, n - 1) \o <<c.response.message>>
                            \o c.tool_responses \o <<c.messages[n]>>

\* C8, amended: after a tool round-trip with a result the function calls itself,
\* one level deeper, on exactly original_messages[:-1] + [message] + results +
\* original_messages[-1:]; and in every request built in the chain the triggering
\* message is last and the newest tool results directly precede it.
C8_CallIsExactlyTheSplice ==
    /\ \A j \in 2..Len(stack) :
        LET c == stack[j - 1]
            f == stack[j]
            n == Len(c.messages)
        IN  c.site \in {"native", "emulated"} =>
                /\ c.tool_responses # <<>>
                /\ f.messages = SubSeq(c.messages, 1, n - 1) \o <<c.response.message>>
                                    \o c.tool_responses \o <<c.messages[n]>>
    /\ \A j \in 1..Len(stack) :
        LET f == stack[j]
            m == Len(f.out)
            S == {k \in 1..(j - 1) : stack[k].site \in {"native", "emulated"}}
        IN  f.out # <<>> =>
                /\ f.out[m] = TriggerId
                /\ S # {} =>
                       LET k == CHOOSE k \in S : \A i \in S : i <= k
                           r == Len(stack[k].tool_responses)
                       IN  /\ m > r
                           /\ SubSeq(f.out, m - r, m - 1) = stack[k].tool_responses

\* a request built from the splice of a second round-trip that had two results
C8_Witness ==
    \E j \in 3..Len(stack) :
        /\ stack[j - 1].site = "native"
        /\ Len(stack[j - 1].tool_responses) = 2
        /\ stack[j - 2].site \in {"native", "emulated"}
        /\ stack[j].pc = "request"

\* C9: in every message list sent to the provider, each block of role tool has
\* the tool_call_id of a tool call of an assistant message earlier in the list.
C9_ToolBlocksCorrelate ==
    \A p \in 1..Len(sent.messages) :
        (sent.messages[p].dict /\ sent.messages[p].role = "tool") =>
            \E q \in 1..(p - 1) :
                /\ ~sent.messages[q].dict
                /\ \E i \in 1..Len(sent.messages[q].calls) :
                       sent.messages[q].calls[i] = sent.messages[p].tcid

\* a request with the tool blocks of two round-trips
C9_Witness ==
    \E p, q \in 1..Len(sent.messages) :
        /\ p + 2 <= q
        /\ sent.messages[p].role = "tool"
        /\ sent.messages[q].role = "tool"
        /\ \E a \in (p + 1)..(q - 1) : ~sent.messages[a].dict

\* C10: if a provider call fails with the error code max_tokens, one further
\* attempt is made with the tool blocks flattened to role system and without
\* tools; the failure is terminal only if that attempt fails too.
C10_MaxTokensIsRetriedFlattened ==
    (trace.error = "max_tokens" /\ status = "raised") =>
        /\ trace.failed >= 2
        /\ ~sent.tools
        /\ \A p \in 1..Len(sent.messages) : sent.messages[p].role # "tool"

\* C11: when a dispatch made with an overridden model returns empty text, no
\* tool call and no directive, the function calls itself once, with the original
\* model, allow_override false and use_tools false, on the messages with every
\* tool block flattened to role system.
C11_OverrideFallbackWithoutTools ==
    \A j \in 2..Len(stack) :
        LET c == stack[j - 1]
            f == stack[j]
        IN  (/\ c.site = "add"
             /\ c.original_model # c.chat_model
             /\ c.response.text = Empty
             /\ c.response.calls = <<>>) =>
                /\ f.original_model = cfg.chat_model
                /\ ~f.allow_override
                /\ ~f.use_tools
                /\ Len(stack) = j
                /\ \A i \in 1..Len(f.messages) : heap[f.messages[i]].role # "tool"

\* C12: when the model is overridden to the tool model, non-text parts are
\* removed from the outgoing request only: the blocks of the history the call
\* received still hold their image parts.
C12_HistoryKeepsItsImages ==
    \A i \in 1..Len(trace.history) : heap[i].image = trace.history[i].image

\* C13: the switch to the tool model affects only the call that makes it: every
\* call of generate_chat_response in a chain is started with the original model,
\* and only a call with allow_override and use_tools sends to the tool model.
C13_CallsStartWithOriginalModel ==
    /\ \A j \in 1..Len(stack) :
           /\ stack[j].original_model = cfg.chat_model
           /\ stack[j].pc = "start" => stack[j].chat_model = cfg.chat_model
    /\ (sent.n > 0 /\ sent.model # cfg.chat_model) =>
           /\ sent.model = cfg.tool_model
           /\ sent.allow_override
           /\ sent.use_tools

\* a call made by a call that was overridden to the tool model has sent its
\* request to the original model
C13_Witness ==
    \E j \in 2..Len(stack) :
        /\ stack[j - 1].chat_model # stack[j - 1].original_model
        /\ stack[j - 1].chat_model = cfg.tool_model
        /\ stack[j].pc = "request"
        /\ stack[j].chat_model = cfg.chat_model
        /\ sent.model = cfg.chat_model

\* C14: a dispatch carries the tool catalog only if use_tools is true for the
\* call: a call with use_tools false (depth guard, Handover, fallbacks) never
\* sends tools to the provider, whatever the ForceTools setting.
C14_NoToolsWithoutUseTools ==
    (sent.n > 0 /\ ~sent.use_tools) => ~sent.tools

\* C22: the steps of a chain are sequential: only the innermost call runs; the
\* tool calls of a response are run one after another in the order the provider
\* listed them; and when the call that follows them starts, every one of them
\* has finished and the results are in the list that call dispatches.
C22_StepsAreSequential ==
    \A j \in 1..Len(stack) :
        LET f == stack[j]
            done == {f.response.calls[i] : i \in 1..(f.idx - 1)}
        IN  /\ j < Len(stack) => f.pc = "await"
            /\ f.pc = "tools" =>
                   /\ f.idx \in 1..Len(f.response.calls)
                   /\ \A k \in 1..Len(f.tool_responses) :
                          heap[f.tool_responses[k]].tcid \in done
                   /\ \A k, l \in 1..Len(f.tool_responses) :
                          k < l => heap[f.tool_responses[k]].tcid
                                       < heap[f.tool_responses[l]].tcid
            /\ (f.pc = "await" /\ f.site = "native") =>
                   /\ f.idx = Len(f.response.calls) + 1
                   /\ Range(f.tool_responses) \subseteq Range(stack[j + 1].messages)

\* C22: a response listed two tool calls, both have run and given a result,
\* and the call that carries the results has dispatched
C22_Witness ==
    \E j \in 1..(Len(stack) - 1) :
        /\ stack[j].site = "native"
        /\ Len(stack[j].response.calls) = 2
        /\ Len(stack[j].tool_responses) = 2
        /\ stack[j + 1].pc = "request"

\* the positions of the system-role blocks of the latest request
SystemPositions ==
    {i \in 1..Len(sent.messages) : sent.messages[i].role = "system"}

\* C24: every provider dispatch carries exactly one system-role block, and it
\* is the first message, also in tool-emulation mode, after emulated tool
\* results are spliced in, and after tool-role blocks are flattened.
C24_ExactlyOneSystemBlock ==
    sent.n > 0 => SystemPositions = {1}

\* C24, amended: the first message of every provider dispatch is a system-role
\* block (the request may carry more of them).
C24_FirstBlockIsSystem ==
    sent.n > 0 => 1 \in SystemPositions

\* C24: a dispatch in tool-emulation mode after an emulated tool result was
\* spliced in: the dispatcher prompt, the system message and the result
C24_Witness ==
    /\ sent.n > 1
    /\ Cardinality(SystemPositions) >= 3
    /\ \E j \in 1..(Len(stack) - 1) : stack[j].site = "emulated"

\* the request just sent is the first one after the tool calls of frame j: the
\* call made at 711 dispatches it, or the call its depth guard made
NextDispatchAfter(j) ==
    /\ j < Len(stack)
    /\ stack[j].site = "native"
    /\ Top.pc = "request"
    /\ \A k \in (j + 1)..(Len(stack) - 1) : stack[k].site = "guard"

\* the tool-result blocks of the latest request that answer a tool call
ResultBlocks(tool_call) ==
    {p \in 1..Len(sent.messages) :
        sent.messages[p].role = "tool" /\ sent.messages[p].tcid = tool_call}

\* the tool calls of frame j that have no tool-result block in the request
Unanswered(j) ==
    {c \in Range(stack[j].response.calls) : ResultBlocks(c) = {}}

\* C32 (as stated): every tool call of a provider response has exactly one
\* tool-result block in the next dispatch
C32_EachCallYieldsOneBlock ==
    \A j \in 1..Len(stack) :
        NextDispatchAfter(j) =>
            \A c \in Range(stack[j].response.calls) :
                Cardinality(ResultBlocks(c)) = 1

\* C32 (amended): in the next dispatch every tool call of the response has at
\* most one tool-result block, at least one call has one, and a call has none
\* only if its tool returned False
C32_EachCallYieldsAtMostOneBlock ==
    \A j \in 1..Len(stack) :
        NextDispatchAfter(j) =>
            /\ \A c \in Range(stack[j].response.calls) :
                   Cardinality(ResultBlocks(c)) <= 1
            /\ Unanswered(j) # Range(stack[j].response.calls)
            /\ Cardinality(Unanswered(j)) <= trace.falses

\* a response of two tool calls, one of which returned False: the next
\* dispatch carries the result of the other
C32_Witness ==
    \E j \in 1..Len(stack) :
        /\ NextDispatchAfter(j)
        /\ Len(stack[j].response.calls) = 2
        /\ Cardinality(Unanswered(j)) = 1
        /\ trace.falses = 1

\* C33: flattening leaves the blocks of the list a call received unchanged:
\* when the call a frame made with its tool results has returned, every tool
\* block of the list it passed still has the role tool and the id of its call
C33_FlatteningLeavesTheCallersBlocks ==
    \A j \in 1..Len(stack) :
        (stack[j].site = "native" /\ stack[j].pc = "return") =>
            \A k \in 1..Len(stack[j].tool_responses) :
                LET block == heap[stack[j].tool_responses[k]] IN
                /\ block.role = "tool"
                /\ block.tcid \in Range(stack[j].response.calls)

\* the tool about to run is the last of its response, and no tool of the
\* response has given a result so far
LastChanceOfAResult ==
    /\ status = "running"
    /\ \/ Top.pc = "emulated"
       \/ Top.pc = "tools" /\ LastToolCall(Top) /\ Top.tool_responses = <<>>

\* C38: when the last tool of a response returns False and none before it gave
\* a result, the call makes no further dispatch and returns False with the
\* usage of its own dispatch, on the native and on the emulated path
C38_AllFalseReturnsFalse ==
    [][(LastChanceOfAResult /\ trace'.falses > trace.falses) =>
           /\ status' = "running"
           /\ Len(stack') = Len(stack)
           /\ stack'[Len(stack)].pc = "return"
           /\ stack'[Len(stack)].result_text = False
           /\ stack'[Len(stack)].tokens = Top.response.usage
           /\ trace'.dispatches = trace.dispatches]_vars

----------------------------------------------------------------------------
(* Token budgeting: OpenAI._truncate (ai/openai.py:413-494) as called by     *)
(* prepare_messages (405-411), and GPTBot._truncate (bot.py:286-326) as      *)
(* called by process_query (bot.py:1104-1112)                                *)

\* blocks after the system message in one history
MaxMessages == 3
\* the estimated cost of a block: len(encoding.encode(content)) + 1
MaxCost == 3
\* the configured MaxTokens
MaxTokens == 6
\* tokens, and characters, of the system message
MaxSystem == 3

\* a block of the history: its position and its estimated cost (openai.py:475)
Block(i, tokens) == [id |-> i, tokens |-> tokens]

\* the lists _truncate is passed: the blocks after the system message, oldest
\* first, the current turn last
MessageLists ==
    UNION {{[i \in 1..n |-> Block(i, cost[i])] : cost \in [1..n -> 1..MaxCost]} :
           n \in 1..MaxMessages}

\* a system message: the tokens it encodes to, and its length; "" has neither
SystemMessages ==
    {m \in [tokens : 0..MaxSystem, chars : 0..MaxSystem] :
        (m.tokens = 0) = (m.chars = 0)}

\* what a call gives: a list, or an exception
Gives(items) == [raises |-> "none", value |-> items]
Fails(exc) == [raises |-> exc, value |-> <<>>]
NotRun == [raises |-> "not run", value |-> <<>>]

\* max_tokens = max_tokens or self.max_tokens (openai.py:432, bot.py:293)
EffectiveMax(max_tokens, configured) ==
    IF max_tokens = 0 THEN configured ELSE max_tokens

\* openai.py:448-450, bot.py:302-304
SystemTokens(system_message) ==
    IF system_message.chars = 0 THEN 0 ELSE system_message.tokens + 1

Reverse(s) == [i \in 1..Len(s) |-> s[Len(s) + 1 - i]]

\* openai.py:465, bot.py:318: [messages[0]] + list(reversed(messages[1:]))
LoopOrder(messages) == <<messages[1]>> \o Reverse(Tail(messages))

\* openai.py:465-479, bot.py:318-324: the loop, which breaks at the first block
\* that does not fit
RECURSIVE Walk(_, _, _, _)
Walk(order, total_tokens, max_tokens, truncated_messages) ==
    IF order = <<>>
    THEN truncated_messages
    ELSE IF total_tokens + Head(order).tokens > max_tokens
         THEN truncated_messages
         ELSE Walk(Tail(order), total_tokens + Head(order).tokens, max_tokens,
                   Append(truncated_messages, Head(order)))

\* Python values of the return expression: a dict, a list, or the exception
\* its evaluation raised
PyDict(item) == [kind |-> "dict", items |-> <<item>>]
PyList(items) == [kind |-> "list", items |-> items]

\* the operator + of Python: lists are concatenated; a dict has no __add__
Add(a, b) ==
    IF a.kind = "list" /\ b.kind = "list"
    THEN PyList(a.items \o b.items)
    ELSE [kind |-> "TypeError", items |-> <<>>]

Outcome(v) == IF v.kind = "list" THEN Gives(v.items) ELSE Fails(v.kind)

\* openai.py:481-488
SystemBlock(system_message) == Block(0, SystemTokens(system_message))

\* OpenAI._truncate, openai.py:413-494
truncate(messages, max_tokens, configured, system_message) ==
    LET max == EffectiveMax(max_tokens, configured)
        system_message_tokens == SystemTokens(system_message)
        truncated_messages ==
            Walk(LoopOrder(messages), system_message_tokens, max, <<>>)
    IN  IF system_message_tokens > max
        THEN Gives(<<>>)
        ELSE IF truncated_messages = <<>>
        THEN \* 492: truncated_messages[0]
             Fails("IndexError")
        ELSE \* 490-494: system_message_dict + [..] + list(reversed(..))
             Outcome(Add(Add(PyDict(SystemBlock(system_message)),
                             PyList(<<truncated_messages[1]>>)),
                         PyList(Reverse(Tail(truncated_messages)))))

\* GPTBot._truncate, bot.py:286-326: the running total starts at the length of
\* the system message (315), and the system message is not in the result
bot_truncate(messages, max_tokens, configured, system_message) ==
    LET max == EffectiveMax(max_tokens, configured)
        truncated_messages ==
            Walk(LoopOrder(messages), system_message.chars + 1, max, <<>>)
    IN  IF SystemTokens(system_message) > max
        THEN Gives(<<>>)
        ELSE IF truncated_messages = <<>>
        THEN \* 326: truncated_messages[0]
             Fails("IndexError")
        ELSE Gives(<<truncated_messages[1]>> \o Reverse(Tail(truncated_messages)))

\* the orchestrator is not running
Idle ==
    /\ cfg = [chat_model |-> "gpt-4o", tool_model |-> NoModel,
              force_tools |-> FALSE, emulate_tools |-> FALSE]
    /\ heap = <<>>
    /\ stack = <<>>
    /\ status = "idle"
    /\ returned = [text |-> None, tokens |-> 0]
    /\ provider = [kind |-> "start", ncalls |-> 0, switches |-> 0, n |-> 0]
    /\ sent = NoRequest
    /\ trace = [dispatches |-> 0]

\* a history, a system message and a configured MaxTokens
InitTruncate ==
    /\ Idle
    /\ retry = NoRetry
    /\ toolrun = NoToolRun
    /\ tasks = NoTasks
    /\ assembly = NoAssembly
    /\ Unentered
    /\ \E messages \in MessageLists, system_message \in SystemMessages,
          configured \in 1..MaxTokens :
         budget = [pc |-> "start", messages |-> messages,
                   system_message |-> system_message, max_tokens |-> configured,
                   prepared |-> NotRun, truncated |-> NotRun, dispatched |-> <<>>]

\* prepare_messages, openai.py:404-411: the assembled blocks are truncated
PrepareMessages ==
    /\ budget.pc # "none"
    /\ budget.prepared = NotRun
    /\ budget' = [budget EXCEPT !.prepared =
                      truncate(budget.messages, budget.max_tokens - 1,
                               budget.max_tokens, budget.system_message)]
    /\ UNCHANGED <<cfg, heap, stack, status, returned, provider, sent, trace, retry, others>>

\* process_query, bot.py:1104-1107: chat_messages[1:] is truncated; the call is
\* in no try, so an exception ends process_query
ProcessQueryTruncate ==
    /\ budget.pc = "start"
    /\ LET r == bot_truncate(budget.messages, budget.max_tokens - 1,
                             budget.max_tokens, budget.system_message)
       IN  budget' = [budget EXCEPT !.truncated = r,
                                    !.pc = IF r.raises = "none" THEN "truncated"
                                           ELSE "raised"]
    /\ UNCHANGED <<cfg, heap, stack, status, returned, provider, sent, trace, retry, others>>

\* process_query, bot.py:1109-1112: generate_chat_response is passed
\* chat_messages, and sends it (openai.py:635-661)
ProcessQueryDispatch ==
    /\ budget.pc = "truncated"
    /\ budget' = [budget EXCEPT !.pc = "dispatched",
                      !.dispatched = <<SystemBlock(budget.system_message)>>
                                         \o budget.messages]
    /\ UNCHANGED <<cfg, heap, stack, status, returned, provider, sent, trace, retry, others>>

NextTruncate ==
    \/ PrepareMessages
    \/ ProcessQueryTruncate
    \/ ProcessQueryDispatch

SpecTruncate == InitTruncate /\ [][NextTruncate]_vars


(* Properties of the token budgeting *)

\* the estimated token total of a list of blocks
RECURSIVE Cost(_)
Cost(blocks) == IF blocks = <<>> THEN 0 ELSE Head(blocks).tokens + Cost(Tail(blocks))

\* the max_tokens both callers pass, as _truncate reads it
BudgetMax == EffectiveMax(budget.max_tokens - 1, budget.max_tokens)

\* the system message alone fits
SystemFits == SystemTokens(budget.system_message) <= BudgetMax

\* C15: for every non-empty list, and every max_tokens the system message alone
\* fits in, the result of OpenAI._truncate has the system block first and the
\* last block of the input, the current turn, last.
C15_KeepsSystemAndCurrentTurn ==
    (budget.prepared # NotRun /\ SystemFits) =>
        /\ budget.prepared.raises = "none"
        /\ Len(budget.prepared.value) >= 2
        /\ Head(budget.prepared.value) = SystemBlock(budget.system_message)
        /\ budget.prepared.value[Len(budget.prepared.value)]
               = budget.messages[Len(budget.messages)]

\* C16: the estimated costs of the blocks _truncate returns, the system block
\* included, sum to at most max_tokens, unless the system block alone exceeds
\* it, and then the result is empty.
C16_ResultFitsTheBudget ==
    /\ budget.prepared # NotRun =>
           IF SystemFits
           THEN /\ budget.prepared.raises = "none"
                /\ Cost(budget.prepared.value) <= BudgetMax
           ELSE budget.prepared = Gives(<<>>)
    /\ budget.truncated # NotRun =>
           IF SystemFits
           THEN /\ budget.truncated.raises = "none"
                /\ SystemTokens(budget.system_message)
                       + Cost(budget.truncated.value) <= BudgetMax
           ELSE budget.truncated = Gives(<<>>)

\* C17: the message list a dispatch carries is the output of the truncation,
\* and its estimated token total is at most the configured MaxTokens.
C17_DispatchIsWithinTheBudget ==
    budget.pc = "dispatched" =>
        /\ Cost(budget.dispatched) <= budget.max_tokens
        /\ Tail(budget.dispatched) = budget.truncated.value

\* C18: if the system message alone exceeds max_tokens, truncation returns an
\* empty list and no provider dispatch is made for the request.
C18_SystemOverBudgetIsFatal ==
    ~SystemFits =>
        /\ budget.truncated # NotRun => budget.truncated = Gives(<<>>)
        /\ budget.prepared # NotRun => budget.prepared = Gives(<<>>)
        /\ budget.pc # "dispatched"

\* C19: OpenAI._truncate walks the blocks after the first from the most recent
\* to the oldest and stops at the first that does not fit; the blocks it keeps
\* of them are a contiguous most-recent run, returned in chronological order.
C19_KeepsAMostRecentRunInOrder ==
    (budget.prepared # NotRun /\ SystemFits) =>
        /\ budget.prepared.raises = "none"
        /\ Len(budget.prepared.value) >= 2
        /\ LET n == Len(budget.messages)
               run == SubSeq(budget.prepared.value, 3, Len(budget.prepared.value))
               used == Cost(budget.prepared.value)
           IN  /\ Len(run) <= n - 1
               /\ \A i \in 1..Len(run) : run[i] = budget.messages[n - Len(run) + i]
               /\ Len(run) < n - 1 =>
                      used + budget.messages[n - Len(run)].tokens > BudgetMax

(* Requests with retries *)

\* bound: the largest value of the parameter attempts
MaxAttempts == 6

\* what the awaited request gives back (the callers await chat completions and
\* image generations)
Responses == {"completion", "image"}

\* exceptions of the request that `except Exception` catches
Failures == {"APIError", "TimeoutError"}

\* base.py:66 with < for <=
MayAttemptBelow(r) == r.current_attempt < r.attempts

\* base.py:66: while current_attempt <= attempts
MayAttempt(r) == r.current_attempt <= r.attempts

\* a call of _request_with_retries: attempts is the parameter, calls the
\* outcomes of the invocations of request so far
InitRetries ==
    /\ Idle
    /\ budget = NoBudget
    /\ toolrun = NoToolRun
    /\ tasks = NoTasks
    /\ assembly = NoAssembly
    /\ Unentered
    /\ \E attempts \in 0..MaxAttempts :
         retry = [pc |-> "loop", attempts |-> attempts, current_attempt |-> 1,
                  calls |-> <<>>, result |-> "none"]

\* base.py:68-69: the request succeeds and its response is returned
RequestSucceeds ==
    /\ retry.pc = "loop"
    /\ MayAttempt(retry)
    /\ \E response \in Responses :
         retry' = [retry EXCEPT !.pc = "returned", !.result = response,
                                !.calls = Append(@, response)]
    /\ UNCHANGED <<cfg, heap, stack, status, returned, provider, sent, trace, budget, others>>

\* base.py:70-74: the request raises an Exception; it is logged, and after the
\* sleep the attempt counter goes up
RequestFails ==
    /\ retry.pc = "loop"
    /\ MayAttempt(retry)
    /\ \E e \in Failures :
         retry' = [retry EXCEPT !.current_attempt = @ + 1,
                                !.calls = Append(@, e)]
    /\ UNCHANGED <<cfg, heap, stack, status, returned, provider, sent, trace, budget, others>>

\* base.py:68: the awaiting task is cancelled; CancelledError is no Exception,
\* so line 70 does not catch it and it leaves the function
RequestCancelled ==
    /\ retry.pc = "loop"
    /\ MayAttempt(retry)
    /\ retry' = [retry EXCEPT !.pc = "cancelled",
                              !.calls = Append(@, "CancelledError")]
    /\ UNCHANGED <<cfg, heap, stack, status, returned, provider, sent, trace, budget, others>>

\* base.py:76: the loop is left; raise Exception("Request failed after all
\* attempts.")
RaiseAfterAllAttempts ==
    /\ retry.pc = "loop"
    /\ ~MayAttempt(retry)
    /\ retry' = [retry EXCEPT !.pc = "raised"]
    /\ UNCHANGED <<cfg, heap, stack, status, returned, provider, sent, trace, budget, others>>

NextRetries ==
    \/ RequestSucceeds
    \/ RequestFails
    \/ RequestCancelled
    \/ RaiseAfterAllAttempts

SpecRetries == InitRetries /\ [][NextRetries]_vars

\* every invocation of the request so far has raised an Exception
AllFailed == \A i \in 1..Len(retry.calls) : retry.calls[i] \in Failures

\* C20: _request_with_retries invokes the request at most `attempts` times,
\* returns the response of the first invocation that succeeds without invoking
\* again, and raises its terminal exception exactly when all `attempts`
\* invocations have failed.
C20_RetriesAreBounded ==
    /\ Len(retry.calls) <= retry.attempts
    /\ retry.pc = "returned" =>
           /\ retry.calls[Len(retry.calls)] = retry.result
           /\ retry.result \in Responses
           /\ \A i \in 1..(Len(retry.calls) - 1) : retry.calls[i] \in Failures
    /\ retry.pc # "returned" =>
           /\ retry.result = "none"
           /\ \A i \in 1..Len(retry.calls) : retry.calls[i] \notin Responses
    /\ retry.pc = "raised" => (AllFailed /\ Len(retry.calls) = retry.attempts)
    /\ (AllFailed /\ Len(retry.calls) = retry.attempts) =>
           (retry.pc = "raised" \/ (retry.pc = "loop" /\ ~MayAttempt(retry)))

\* C20: with the default of five attempts, the fifth invocation succeeds after
\* four failures and its response is returned
C20_Witness ==
    /\ retry.pc = "returned"
    /\ retry.attempts = Attempts
    /\ Len(retry.calls) = Attempts

----------------------------------------------------------------------------
(* Tool calls of one response, in ai/openai.py and in classes/openai.py *)

\* a block of the request: a message dict as both classes build it
ToolBlock(role, tool_call_id, content) ==
    [role |-> role, tool_call_id |-> tool_call_id, content |-> content]

\* original_messages of the call, and choice.message of the response
ToolHistory == <<ToolBlock("system", 0, "prompt"), ToolBlock("user", 0, "question")>>
ToolRequestMessage == ToolBlock("assistant", 0, "tool_calls")

\* what call_tool returns for a tool that failed
ErrorTexts == {"Error: Tool not found", "Error: Something went wrong"}

\* a response with tool calls (native) or a JSON directive (emulated), in the
\* OpenAI class of classes/ai/openai.py or the one of classes/openai.py
InitToolRun ==
    /\ Idle
    /\ budget = NoBudget
    /\ retry = NoRetry
    /\ tasks = NoTasks
    /\ assembly = NoAssembly
    /\ Unentered
    /\ \E legacy \in BOOLEAN, emulated \in BOOLEAN,
          n \in 1..MaxToolCalls :
         /\ emulated => n = 1
         /\ toolrun = [pc |-> IF emulated THEN "emulated" ELSE "tools",
                       legacy |-> legacy, calls |-> n, outcomes |-> <<>>,
                       tool_responses |-> <<>>, raised |-> "none",
                       dispatched |-> <<>>]

\* openai.py:700-713 (classes/openai.py:318-331): without tool responses the
\* answer is False; with them the spliced list is the next request
AfterToolCalls(t) ==
    IF t.tool_responses = <<>>
    THEN [t EXCEPT !.pc = "returned"]
    ELSE [t EXCEPT !.pc = "dispatched",
                   !.dispatched = Splice(ToolHistory, ToolRequestMessage,
                                         t.tool_responses)]

\* openai.py:675-713 (classes/openai.py:293-331): one tool call of the response
ToolCall ==
    /\ toolrun.pc = "tools"
    /\ \E outcome \in ToolOutcomes :
        LET r == call_tool(outcome)
            i == Len(toolrun.outcomes) + 1
            t == [toolrun EXCEPT !.outcomes = Append(@, outcome)]
            g == IF r.value # "False"
                 THEN [t EXCEPT !.tool_responses =
                                    Append(@, ToolBlock("tool", i, r.value))]
                 ELSE t
        IN  toolrun' =
                IF r.raises = "StopProcessing" THEN [t EXCEPT !.pc = "returned"]
                ELSE IF r.raises = "Handover" THEN [t EXCEPT !.pc = "handover"]
                ELSE IF r.raises # "none"
                THEN [t EXCEPT !.pc = "raised", !.raised = r.raises]
                ELSE IF i < toolrun.calls THEN g
                ELSE AfterToolCalls(g)
    /\ UNCHANGED <<cfg, heap, stack, status, returned, provider, sent, trace,
                   budget, retry, tasks, assembly, entries>>

\* openai.py:764-827; classes/openai.py:383-444, which looks the tool up in
\* TOOLS (385) before the call and outside any try
EmulatedToolCall ==
    /\ toolrun.pc = "emulated"
    /\ \E outcome \in ToolOutcomes \ {"badargs"} :
        LET r == call_tool(outcome)
            t == [toolrun EXCEPT !.outcomes = Append(@, outcome)]
        IN  toolrun' =
                IF toolrun.legacy /\ outcome = "unknown"
                THEN [t EXCEPT !.pc = "raised", !.raised = "KeyError"]
                ELSE IF r.raises = "StopProcessing" THEN [t EXCEPT !.pc = "returned"]
                ELSE IF r.raises = "Handover" THEN [t EXCEPT !.pc = "handover"]
                ELSE IF r.raises # "none"
                THEN [t EXCEPT !.pc = "raised", !.raised = r.raises]
                ELSE IF r.value = "False"
                THEN \* 808 (427): tool_responses is not bound
                     [t EXCEPT !.pc = "raised", !.raised = "UnboundLocalError"]
                ELSE AfterToolCalls(
                         [t EXCEPT !.tool_responses =
                                       <<ToolBlock("system", 0, r.value)>>])
    /\ UNCHANGED <<cfg, heap, stack, status, returned, provider, sent, trace,
                   budget, retry, tasks, assembly, entries>>

NextToolRun ==
    \/ ToolCall
    \/ EmulatedToolCall

SpecToolRun == InitToolRun /\ [][NextToolRun]_vars

\* the tool calls run so far whose tool raised an ordinary exception or was not
\* in the registry
FailedCalls ==
    {i \in 1..Len(toolrun.outcomes) : toolrun.outcomes[i] \in {"error", "unknown"}}

\* C21: a tool whose run raises an ordinary exception, and a tool call naming a
\* tool that is not in the registry, each give a text result describing the
\* error, which the next dispatch carries; neither makes an exception leave
\* generate_chat_response.
C21_ToolErrorsAreFedBack ==
    \A i \in FailedCalls :
        /\ toolrun.pc = "raised" => i < Len(toolrun.outcomes)
        /\ \E k \in 1..Len(toolrun.tool_responses) :
               /\ toolrun.tool_responses[k].content \in ErrorTexts
               /\ toolrun.tool_responses[k].tool_call_id \in {0, i}
               /\ toolrun.pc = "dispatched" =>
                      toolrun.tool_responses[k] \in Range(toolrun.dispatched)

----------------------------------------------------------------------------
(* Concurrent calls of generate_chat_response: bot.py:474 creates one task per *)
(* event, and all of them use the one OpenAI object of bot.py:158              *)

\* bounds: the tasks in flight, and the attempts of a request the model follows
MaxTasks == 2
MaxTaskAttempts == 2

Tasks == 1..MaxTasks

\* openai.py:658, and the BaseURL of a provider that is not OpenAI
OpenAIURL == "https://api.openai.com/v1/"
CustomURL == "https://provider.example/v1/"

\* openai.py:654: chat_model.startswith("gpt-")
IsGPT(model) == model \in {"gpt-3.5-turbo", "gpt-4-turbo", "gpt-4o"}

\* openai.py:654-657: an overridden model of OpenAI, with a key of OpenAI
PointsToOpenAI(config, chat_model) ==
    IsGPT(chat_model) /\ ~IsGPT(config.chat_model) /\ config.api_key_sk

\* openai.py:652-658: the base URL a call has its request sent to
WantedURL(config, chat_model) ==
    IF PointsToOpenAI(config, chat_model) THEN OpenAIURL ELSE config.base_url

NewTask == [pc |-> "new", chat_model |-> NoModel, api_url |-> "none", attempt |-> 0]

\* openai.py:52-57: the client is built with the configured base URL
InitTasks ==
    /\ Idle
    /\ budget = NoBudget
    /\ retry = NoRetry
    /\ toolrun = NoToolRun
    /\ assembly = NoAssembly
    /\ Unentered
    /\ \E chat_model \in ChatModels, api_key_sk \in BOOLEAN,
          base_url \in {OpenAIURL, CustomURL} :
         tasks = [pc |-> "serving",
                  config |-> [chat_model |-> chat_model, tool_model |-> "gpt-3.5-turbo",
                              api_key_sk |-> api_key_sk, base_url |-> base_url],
                  base_url |-> base_url,      \* self.openai_api.base_url
                  task |-> [t \in Tasks |-> NewTask],
                  sends |-> {}]

\* the request as the client sends it: to the base URL the client has when
\* create() is called
Send(t, chat_model, url) == [task |-> t, model |-> chat_model, url |-> url]

\* openai.py:522-661: a call chooses its model (the configured one, or the tool
\* model when it overrides, 563-571), reads the configured base URL, points the
\* client to OpenAI if it has to, and makes the request; it is then suspended
Dispatch(t) ==
    /\ tasks.pc = "serving"
    /\ tasks.task[t].pc = "new"
    /\ \E chat_model \in {tasks.config.chat_model, tasks.config.tool_model} :
        LET url == IF PointsToOpenAI(tasks.config, chat_model)
                   THEN OpenAIURL
                   ELSE tasks.base_url
        IN  tasks' = [tasks EXCEPT
                         !.base_url = url,
                         !.task[t] = [pc |-> "waiting", chat_model |-> chat_model,
                                      api_url |-> tasks.config.base_url,
                                      attempt |-> 1],
                         !.sends = @ \cup {Send(t, chat_model, url)}]
    /\ UNCHANGED <<cfg, heap, stack, status, returned, provider, sent, trace,
                   budget, retry, toolrun, assembly, entries>>

\* base.py:70-74, 66-68: the request failed; after the sleep it is made again,
\* with the base URL the client has by then
Retry(t) ==
    /\ tasks.pc = "serving"
    /\ tasks.task[t].pc = "waiting"
    /\ tasks.task[t].attempt < MaxTaskAttempts
    /\ tasks' = [tasks EXCEPT
                    !.task[t].attempt = @ + 1,
                    !.sends = @ \cup {Send(t, tasks.task[t].chat_model,
                                           tasks.base_url)}]
    /\ UNCHANGED <<cfg, heap, stack, status, returned, provider, sent, trace,
                   budget, retry, toolrun, assembly, entries>>

\* openai.py:661-664: the response arrives; the client's base URL is set to
\* what the call read at 652
Receive(t) ==
    /\ tasks.pc = "serving"
    /\ tasks.task[t].pc = "waiting"
    /\ tasks' = [tasks EXCEPT !.base_url = tasks.task[t].api_url,
                              !.task[t].pc = "done"]
    /\ UNCHANGED <<cfg, heap, stack, status, returned, provider, sent, trace,
                   budget, retry, toolrun, assembly, entries>>

\* base.py:76: the last attempt failed; the exception leaves the call before
\* line 664, and the client keeps its base URL
GiveUp(t) ==
    /\ tasks.pc = "serving"
    /\ tasks.task[t].pc = "waiting"
    /\ tasks.task[t].attempt = MaxTaskAttempts
    /\ tasks' = [tasks EXCEPT !.task[t].pc = "failed"]
    /\ UNCHANGED <<cfg, heap, stack, status, returned, provider, sent, trace,
                   budget, retry, toolrun, assembly, entries>>

NextTasks ==
    \/ \E t \in Tasks : Dispatch(t)
    \/ \E t \in Tasks : Retry(t)
    \/ \E t \in Tasks : Receive(t)
    \/ \E t \in Tasks : GiveUp(t)

SpecTasks == InitTasks /\ [][NextTasks]_vars

\* C23: concurrent calls share no mutable state: every request of a call is
\* sent with the model that call chose and to the base URL that call's own
\* model asks for, whatever the other calls in flight have overridden.
C23_DispatchesAreIndependent ==
    \A s \in tasks.sends :
        /\ s.model = tasks.task[s.task].chat_model
        /\ s.url = WantedURL(tasks.config, s.model)

\* no call is between its request and the response or the final failure
NoCallInFlight ==
    tasks.pc = "serving" /\ \A t \in Tasks : tasks.task[t].pc # "waiting"

\* C34: when the calls have finished, by a response or by the failure of the
\* last attempt, the client's base URL is the configured one
C34_BaseURLIsRestored ==
    NoCallInFlight => tasks.base_url = tasks.config.base_url

----------------------------------------------------------------------------
(* Assembling the context: OpenAI.prepare_messages, ai/openai.py:172-411 *)

\* bound: the messages of the history before the triggering event
MaxHistory == 2

\* the bot's user id, and somebody else's
Senders == {"bot", "other"}

\* RoomMessageText and RoomMessageNotice ("text"), RoomMessageAudio,
\* RoomMessageFile (mp3: body.endswith(".mp3")), RoomMessageImage,
\* RoomMessageVideo
Kinds ==
    {[type |-> "text", mp3 |-> FALSE], [type |-> "audio", mp3 |-> FALSE],
     [type |-> "file", mp3 |-> FALSE], [type |-> "file", mp3 |-> TRUE],
     [type |-> "image", mp3 |-> FALSE], [type |-> "video", mp3 |-> FALSE]}

\* a Matrix event; rev tells apart two events with one event_id that are not
\* equal
RoomMessage(event_id, kind, sender, rev) ==
    [event_id |-> event_id, type |-> kind.type, mp3 |-> kind.mp3,
     sender |-> sender, rev |-> rev]

\* the histories for an event: earlier messages, of which the last may be the
\* event as the room history holds it, equal to the event or not
Earlier(n, event) ==
    {h \in [1..n -> {RoomMessage(0, k, s, 0) : k \in Kinds, s \in Senders}
                        \cup {event, [event EXCEPT !.rev = 1]}] :
        \A i \in 1..n : h[i].event_id = 0 \/ i = n}

\* openai.py:152-156 and the room parameter
AssemblyConfigs == [images : BOOLEAN, videos : BOOLEAN, room : BOOLEAN]

\* openai.py:187-191: the role of the sender
Role(message) == IF message.sender = "bot" THEN "assistant" ELSE "user"

\* openai.py:192: message == event or (not message.event_id == event.event_id)
Processed(message, event) ==
    message = event \/ message.event_id # event.event_id

\* a part of a content list (or the string of a str content): of is the
\* position of the message it is built from, says what its text is
ContentPart(type, of, says) == [type |-> type, of |-> of, says |-> says]

\* a message dict {"role": .., "content": ..}; list tells a content list from
\* a str
ChatMessage(role, list, parts) == [role |-> role, list |-> list, parts |-> parts]

\* openai.py:193-198: message_body, a str or a one-part list
TextMessage(config, role, of, says) ==
    ChatMessage(role, config.images, <<ContentPart("text", of, says)>>)

\* what the collaborators do with the attachment of a message when asked:
\* "ok" the download and what follows it succeed; "none" download_file returns
\* None; "raises" the download, or the decoding of an image, raises;
\* "undecodable" the bytes of a file are not UTF-8; "empty" they decode to "".
\* "plain": the message has no attachment the call could ask for (the audio of
\* a call without a room is not downloaded, 209)
Outcomes(config, message) ==
    IF message.type = "file" /\ ~message.mp3
    THEN {"ok", "none", "raises", "undecodable", "empty"}
    ELSE IF (message.type = "image" /\ config.images)
            \/ (message.type = "video" /\ config.videos)
    THEN {"ok", "none", "raises"}
    ELSE IF message.type \in {"audio", "file"} /\ config.room
    THEN {"ok", "raises"}
    ELSE {"plain"}

\* what one iteration gives: the list, or the exception that leaves the loop
Assembled(chat_messages) == [raises |-> "none", chat_messages |-> chat_messages]
Leaves(exc, chat_messages) == [raises |-> exc, chat_messages |-> chat_messages]

\* openai.py:264-268, 336-340, 396-400: except Exception: a system message
\* with the body of the message
Diagnostic(config, chat_messages, of) ==
    Assembled(Append(chat_messages, TextMessage(config, "system", of, "body")))

\* openai.py:185-198
TextBranch(config, chat_messages, message, of, event) ==
    IF Processed(message, event)
    THEN Assembled(Append(chat_messages,
                          TextMessage(config, Role(message), of, "body")))
    ELSE Assembled(chat_messages)

\* openai.py:200-230: OpenAI has no attribute room_uses_stt (bot.py:933 defines
\* it on GPTBot), so line 209 raises AttributeError whenever room is given, and
\* 210-222 is never reached
AudioBranch(config, chat_messages, message, of, event) ==
    IF ~Processed(message, event)
    THEN Assembled(chat_messages)
    ELSE IF config.room
    THEN Leaves("AttributeError", chat_messages)
    ELSE Assembled(Append(chat_messages,
                          TextMessage(config, Role(message), of, "body")))

\* a file branch in which bytes that do not decode count as a failure
FileBranchWithNote(config, chat_messages, message, of, event, outcome) ==
    IF outcome \in {"raises", "undecodable"}
    THEN Diagnostic(config, chat_messages, of)
    ELSE IF outcome = "ok" /\ Processed(message, event)
    THEN Assembled(Append(chat_messages,
                          TextMessage(config, Role(message), of, "text")))
    ELSE Assembled(chat_messages)

\* openai.py:232-268
FileBranch(config, chat_messages, message, of, event, outcome) ==
    IF outcome = "raises"
    THEN Diagnostic(config, chat_messages, of)
    ELSE IF outcome = "ok" /\ Processed(message, event)
    THEN Assembled(Append(chat_messages,
                          TextMessage(config, Role(message), of, "text")))
    ELSE \* 237: download is None; 241-242, 244: text is None or ""
         Assembled(chat_messages)

\* openai.py:270-340 and 342-400: the part is appended to the last block if it
\* has the sender's role (297-324); its content is a str when images are not
\* supported, and str has no append; without such a block the new dict reads
\* self.matrix_client (314, 374), which OpenAI does not have.  Both raise
\* AttributeError inside the try
MediaBranch(config, chat_messages, message, of, outcome) ==
    IF outcome = "raises"
    THEN Diagnostic(config, chat_messages, of)
    ELSE IF outcome = "none"
    THEN Assembled(chat_messages)
    ELSE LET n == Len(chat_messages)
             part == ContentPart("image_url", of, "data")
         IN  IF n > 0 /\ chat_messages[n].role = Role(message)
                /\ chat_messages[n].list
             THEN Assembled([chat_messages EXCEPT ![n].parts = Append(@, part)])
             ELSE Diagnostic(config, chat_messages, of)

\* an iteration that puts the body of an image the model cannot read under
\* the sender's role
IterationWithCaptions(config, chat_messages, message, of, event, outcome) ==
    IF message.type = "text" \/ (message.type = "image" /\ ~config.images)
    THEN TextBranch(config, chat_messages, message, of, event)
    ELSE IF message.type = "audio" \/ (message.type = "file" /\ message.mp3)
    THEN AudioBranch(config, chat_messages, message, of, event)
    ELSE IF message.type = "file"
    THEN FileBranch(config, chat_messages, message, of, event, outcome)
    ELSE IF (config.images /\ message.type = "image")
            \/ (config.videos /\ message.type = "video")
    THEN MediaBranch(config, chat_messages, message, of, outcome)
    ELSE Assembled(chat_messages)

\* openai.py:184-400: one iteration of `for message in messages`
Iteration(config, chat_messages, message, of, event, outcome) ==
    IF message.type = "text"
    THEN TextBranch(config, chat_messages, message, of, event)
    ELSE IF message.type = "audio" \/ (message.type = "file" /\ message.mp3)
    THEN AudioBranch(config, chat_messages, message, of, event)
    ELSE IF message.type = "file"
    THEN FileBranch(config, chat_messages, message, of, event, outcome)
    ELSE IF (config.images /\ message.type = "image")
            \/ (config.videos /\ message.type = "video")
    THEN MediaBranch(config, chat_messages, message, of, outcome)
    ELSE Assembled(chat_messages)

\* openai.py:172-183: a call with a history and the triggering event;
\* messages.append(event)
InitAssembly ==
    /\ Idle
    /\ budget = NoBudget
    /\ retry = NoRetry
    /\ toolrun = NoToolRun
    /\ tasks = NoTasks
    /\ Unentered
    /\ \E config \in AssemblyConfigs, n \in 0..MaxHistory,
          kind \in Kinds, sender \in Senders :
         LET event == RoomMessage(1, kind, sender, 0) IN
         \E history \in Earlier(n, event) :
             assembly = [pc |-> "loop", config |-> config, event |-> event,
                         messages |-> Append(history, event), of |-> 1,
                         outcomes |-> <<>>, chat_messages |-> <<>>,
                         raised |-> "none", result |-> NotRun]

\* openai.py:184-400: the next message of the list is assembled
Assemble ==
    /\ assembly.pc = "loop"
    /\ assembly.of <= Len(assembly.messages)
    /\ LET message == assembly.messages[assembly.of] IN
       \E outcome \in Outcomes(assembly.config, message) :
         LET r == Iteration(assembly.config, assembly.chat_messages, message,
                            assembly.of, assembly.event, outcome)
         IN  assembly' = [assembly EXCEPT
                             !.of = @ + 1,
                             !.outcomes = Append(@, outcome),
                             !.chat_messages = r.chat_messages,
                             !.raised = r.raises,
                             !.pc = IF r.raises # "none" THEN "raised" ELSE @]
    /\ UNCHANGED <<cfg, heap, stack, status, returned, provider, sent, trace,
                   budget, retry, toolrun, tasks, entries>>

\* the blocks as _truncate sees them: each costs one token
Priced(chat_messages) == [i \in 1..Len(chat_messages) |-> Block(i, 1)]

\* the system messages of a call: one that fits the budget, one that does not
SystemMessagesOfACall ==
    {[tokens |-> 1, chars |-> 1], [tokens |-> MaxTokens, chars |-> MaxTokens]}

\* openai.py:404-409: self._truncate(chat_messages, self.max_tokens - 1,
\* system_message); _truncate reads messages[0] (465)
Truncated(chat_messages, system_message) ==
    IF chat_messages = <<>>
    THEN Fails("IndexError")
    ELSE truncate(Priced(chat_messages), MaxTokens - 1, MaxTokens,
                  system_message)

\* openai.py:402-411: the loop is over, the list is truncated and returned
ReturnPrepared ==
    /\ assembly.pc = "loop"
    /\ assembly.of > Len(assembly.messages)
    /\ \E system_message \in SystemMessagesOfACall :
         LET r == Truncated(assembly.chat_messages, system_message) IN
         assembly' = [assembly EXCEPT
                         !.result = r,
                         !.raised = r.raises,
                         !.pc = IF r.raises = "none" THEN "returned"
                                ELSE "raised"]
    /\ UNCHANGED <<cfg, heap, stack, status, returned, provider, sent, trace,
                   budget, retry, toolrun, tasks, entries>>

NextAssembly ==
    \/ Assemble
    \/ ReturnPrepared

SpecAssembly == InitAssembly /\ [][NextAssembly]_vars

\* the loop has gone through every message of the list
LoopIsOver ==
    assembly.pc # "none" /\ assembly.of > Len(assembly.messages)

\* the positions of the messages the parts of the assembled list are built
\* from, in the order of the list
RECURSIVE Origins(_)
Origins(chat_messages) ==
    IF chat_messages = <<>>
    THEN <<>>
    ELSE [i \in 1..Len(Head(chat_messages).parts) |->
              Head(chat_messages).parts[i].of] \o Origins(Tail(chat_messages))

\* C25: when the loop of prepare_messages is over, the parts of the assembled
\* list follow the order of the input history, and the last block is the one
\* built from the triggering event, whatever the type of that event
C25_ChronologicalTriggerLast ==
    LoopIsOver =>
        LET origins == Origins(assembly.chat_messages) IN
        /\ \A i, j \in 1..Len(origins) : i < j => origins[i] <= origins[j]
        /\ origins # <<>>
        /\ origins[Len(origins)] = Len(assembly.messages)

\* the loop was left by an exception while it assembled message i
AbortedAt(i) ==
    assembly.pc = "raised" /\ assembly.result = NotRun /\ assembly.of = i + 1

\* the list holds a block of the given roles with a part built from message i
HasBlock(i, roles) ==
    \E b \in 1..Len(assembly.chat_messages) :
        /\ assembly.chat_messages[b].role \in roles
        /\ \E p \in 1..Len(assembly.chat_messages[b].parts) :
               assembly.chat_messages[b].parts[p].of = i

\* C26: a message whose attachment cannot be downloaded (the download raises,
\* or gives nothing) has a system-role block in the assembled list, and the
\* loop is not left while it is assembled
C26_DownloadFailuresAreDiagnosed ==
    \A i \in 1..Len(assembly.outcomes) :
        assembly.outcomes[i] \in {"raises", "none"} =>
            HasBlock(i, {"system"}) /\ ~AbortedAt(i)

\* RoomMessageAudio, or a RoomMessageFile named .mp3 (200-202)
IsAudio(message) ==
    message.type = "audio" \/ (message.type = "file" /\ message.mp3)

\* the list holds a block of the role whose text is the body of message i
HasBodyUnder(i, role) ==
    \E b \in 1..Len(assembly.chat_messages) :
        /\ assembly.chat_messages[b].role = role
        /\ \E p \in 1..Len(assembly.chat_messages[b].parts) :
               assembly.chat_messages[b].parts[p] = ContentPart("text", i, "body")

\* C27: an audio message of a room with speech-to-text whose download or
\* transcription fails has a block under its sender's role with the body of
\* the message as text, and no exception leaves the loop at that message
C27_AudioFailuresFallBackToTheBody ==
    \A i \in 1..Len(assembly.outcomes) :
        ( /\ IsAudio(assembly.messages[i])
          /\ Processed(assembly.messages[i], assembly.event)
          /\ assembly.config.room
          /\ assembly.outcomes[i] = "raises" ) =>
            /\ HasBodyUnder(i, Role(assembly.messages[i]))
            /\ ~AbortedAt(i)

\* the image messages the loop has gone through with a model that has no
\* image support
UnsupportedImages ==
    {i \in 1..Len(assembly.outcomes) :
        assembly.messages[i].type = "image" /\ ~assembly.config.images}

\* C28 (as stated): with a model that has no image support, every image
\* message has a text block with its caption under the sender's role
C28_ImagesDegradeToTheirCaption ==
    \A i \in UnsupportedImages :
        Processed(assembly.messages[i], assembly.event) =>
            HasBodyUnder(i, Role(assembly.messages[i]))

\* C28 (amended): with a model that has no image support, no block at all is
\* built from an image message, and the loop goes on
C28_UnsupportedImagesAreLeftOut ==
    \A i \in UnsupportedImages :
        ~HasBlock(i, {"user", "assistant", "system"}) /\ ~AbortedAt(i)

\* an unsupported image between two messages that do have their blocks
C28_Witness ==
    /\ 2 \in UnsupportedImages
    /\ Len(assembly.outcomes) = 3
    /\ HasBlock(1, {"user"})
    /\ HasBlock(3, {"user"})

\* the file messages the loop has gone through whose bytes are not UTF-8
UndecodableFiles ==
    {i \in 1..Len(assembly.outcomes) : assembly.outcomes[i] = "undecodable"}

\* C29 (as stated): a file message whose bytes do not decode as UTF-8 has a
\* system-role note in the assembled list
C29_UndecodableFilesAreNoted ==
    \A i \in UndecodableFiles : HasBlock(i, {"system"})

\* C29 (amended): a file message whose bytes do not decode as UTF-8 is left
\* out: no block is built from it, and the loop goes on
C29_UndecodableFilesAreLeftOut ==
    \A i \in UndecodableFiles :
        ~HasBlock(i, {"user", "assistant", "system"}) /\ ~AbortedAt(i)

\* an undecodable file between a file that is inlined and the event
C29_Witness ==
    /\ assembly.outcomes = <<"ok", "undecodable", "plain">>
    /\ Len(assembly.chat_messages) = 2
    /\ assembly.chat_messages[1].parts[1].says = "text"
    /\ HasBlock(3, {"user"})

\* the images and videos the loop has read: the model supports them and the
\* download gave a readable file
MediaRead ==
    {i \in 1..Len(assembly.outcomes) :
        /\ assembly.outcomes[i] = "ok"
        /\ assembly.messages[i].type \in {"image", "video"}}

\* the part of image or video i is in a block of its sender's role
MediaIsUnderItsSender(i) ==
    \E b \in 1..Len(assembly.chat_messages) :
        /\ assembly.chat_messages[b].role = Role(assembly.messages[i])
        /\ \E p \in 1..Len(assembly.chat_messages[b].parts) :
               assembly.chat_messages[b].parts[p] =
                   ContentPart("image_url", i, "data")

\* C30: the blocks of the assembled list are role-coalesced: the part of an
\* image or video is in a block of its sender's role, the preceding one or a
\* new one, and no two neighbouring blocks have the same role
C30_BlocksAreRoleCoalesced ==
    /\ \A i \in MediaRead : MediaIsUnderItsSender(i)
    /\ \A b \in 1..(Len(assembly.chat_messages) - 1) :
           assembly.chat_messages[b].role # assembly.chat_messages[b + 1].role

\* the entries of the history that have the id of the triggering event
CopiesOfTheEvent ==
    {i \in 1..(Len(assembly.messages) - 1) :
        assembly.messages[i].event_id = assembly.event.event_id}

\* C39: the triggering event contributes once: an entry of the history with
\* the event's id is skipped, it leaves no block and no part in the assembled
\* list, whatever the type of the event
C39_TheEventContributesOnce ==
    LoopIsOver =>
        \A i \in CopiesOfTheEvent : ~HasBlock(i, {"user", "assistant", "system"})

----------------------------------------------------------------------------
(* Answering a message: GPTBot.process_query, bot.py:995-1154 *)

\* the texts process_query sends to the room
GenericNotice == "Something went wrong. Please try again."
AudioNotice == "Something went wrong generating audio file."
\* the response as a text message (1143), and as an audio file (1131)
Answer == "response"
SpokenAnswer == "response, as audio"

\* what generate_chat_response returns as the response: its text, or a value
\* that is not true
QueryResponses == {"text", "False", "None", ""}

\* what GPTBot._truncate does with the lists process_query may hand it: it
\* returns, or raises
TruncationOutcomes ==
    {bot_truncate(m, MaxTokens - 1, MaxTokens, sm).raises :
        m \in MessageLists, sm \in SystemMessages}

\* a call process_query(room, event, from_chat_command) in a room with its
\* settings; mentioned: the bot's user id is in the body of the event
InitQuery ==
    /\ Idle
    /\ budget = NoBudget
    /\ retry = NoRetry
    /\ toolrun = NoToolRun
    /\ tasks = NoTasks
    /\ assembly = NoAssembly
    /\ callback = NoCallback
    /\ fetch = NoFetch
    /\ \E from_chat_command, responds, mentioned, classifies, tts \in BOOLEAN :
         query = [pc |-> "gate",
                  from_chat_command |-> from_chat_command,
                  respond_to_room_messages |-> responds,
                  mentioned |-> mentioned,
                  room_uses_classification |-> classifies,
                  room_uses_tts |-> tts,
                  typing |-> FALSE,       \* the typing indicator of the room
                  typed |-> FALSE,        \* room_typing(.., True) was called
                  rerouted |-> FALSE,     \* process_command was called
                  room |-> <<>>,          \* what the run sent to the room
                  response |-> "None",
                  raised |-> "none"]

QueryStep(q) ==
    /\ query' = q
    /\ UNCHANGED <<cfg, heap, stack, status, returned, provider, sent, trace,
                   budget, retry, toolrun, tasks, assembly, callback, fetch>>

\* send_message(room, text) and send_file(room, ..)
Sends(q, text) == [q EXCEPT !.room = Append(@, text)]

\* return
Returned(q) == [q EXCEPT !.pc = "returned"]

\* an exception that no handler of process_query catches
QueryRaises(q, exc) == [q EXCEPT !.pc = "raised", !.raised = exc]

\* bot.py:1006-1015: the reply gate, then the typing indicator and the read
\* marker
ReplyGate ==
    /\ query.pc = "gate"
    /\ IF ~(query.from_chat_command \/ query.respond_to_room_messages
            \/ query.mentioned)
       THEN QueryStep(Returned(query))
       ELSE QueryStep([query EXCEPT !.typing = TRUE, !.typed = TRUE,
                                    !.pc = "classify"])

\* bot.py:1017-1041: the classification of the message, where the room uses it
Classify ==
    /\ query.pc = "classify"
    /\ IF query.from_chat_command \/ ~query.room_uses_classification
       THEN QueryStep([query EXCEPT !.pc = "history"])
       ELSE \E outcome \in {"raises", "chat", "other"} :
              QueryStep(
                CASE outcome = "raises" ->
                       \* 1022-1027
                       Returned(Sends(query, GenericNotice))
                  [] outcome = "other" ->
                       \* 1036-1041: process_command(room, event)
                       Returned([query EXCEPT !.rerouted = TRUE])
                  [] OTHER -> [query EXCEPT !.pc = "history"])

\* bot.py:1043-1050: _last_n_messages(room.room_id, 20)
FetchHistory ==
    /\ query.pc = "history"
    /\ \E raises \in BOOLEAN :
         QueryStep(IF raises
                   THEN Returned(Sends(query, GenericNotice))
                   ELSE [query EXCEPT !.pc = "assemble"])

\* bot.py:1052-1103: the blocks of the messages.  The download of an audio is in
\* a try (1073-1078); the download of an image is not (1087), and a
\* DownloadError has no content_type and no body
AssembleContext ==
    /\ query.pc = "assemble"
    /\ \E outcome \in {"ok", "AttributeError"} :
         QueryStep(IF outcome = "ok"
                   THEN [query EXCEPT !.pc = "truncate"]
                   ELSE QueryRaises(query, outcome))

\* bot.py:1105-1107: self._truncate(chat_messages[1:], ..), in no try
TruncateContext ==
    /\ query.pc = "truncate"
    /\ \E outcome \in TruncationOutcomes :
         QueryStep(IF outcome = "none"
                   THEN [query EXCEPT !.pc = "generate"]
                   ELSE QueryRaises(query, outcome))

\* bot.py:1109-1119: generate_chat_response(chat_messages, user=room.room_id)
Generate ==
    /\ query.pc = "generate"
    /\ \E raises \in BOOLEAN, response \in QueryResponses :
         QueryStep(IF raises
                   THEN Returned(Sends(query, GenericNotice))
                   ELSE [query EXCEPT !.response = response, !.pc = "reply"])

\* bot.py:1121-1154: `if response:` the answer is sent, as audio (and then the
\* function returns, 1137) or as text; else the notice is sent; then the typing
\* indicator is switched off
Reply(q, tts_fails) ==
    LET off(r) == [r EXCEPT !.typing = FALSE] IN
    IF q.response \notin {"text"}
    THEN Returned(off(Sends(q, GenericNotice)))
    ELSE IF q.room_uses_tts /\ ~tts_fails
    THEN Returned(Sends(q, SpokenAnswer))
    ELSE IF q.room_uses_tts
    THEN Returned(off(Sends(Sends(q, AudioNotice), Answer)))
    ELSE Returned(off(Sends(q, Answer)))

SendReply ==
    /\ query.pc = "reply"
    /\ \E tts_fails \in BOOLEAN : QueryStep(Reply(query, tts_fails))

NextQuery ==
    \/ ReplyGate
    \/ Classify
    \/ FetchHistory
    \/ AssembleContext
    \/ TruncateContext
    \/ Generate
    \/ SendReply

SpecQuery == InitQuery /\ [][NextQuery]_vars

\* the run is over: it returned, or an exception left it
QueryIsOver == query.pc \in {"returned", "raised"}

\* the run got past the reply gate and did not hand the event to process_command
Answering == query.typed /\ ~query.rerouted

LastSent == query.room[Len(query.room)]

\* C31: a run of process_query that got past the reply gate and was not
\* rerouted to a command ends with a message to the room: the answer (as text
\* or as audio) when the model produced one, and the generic notice otherwise
C31_TheRunEndsWithAMessage ==
    (QueryIsOver /\ Answering) =>
        /\ query.room # <<>>
        /\ LastSent \in (IF query.response = "text"
                         THEN {Answer, SpokenAnswer}
                         ELSE {GenericNotice})

\* C35: when process_query has switched the typing indicator of the room on,
\* the indicator is off again when the run is over
C35_TypingIsSwitchedOff ==
    (QueryIsOver /\ query.typed) => ~query.typing

----------------------------------------------------------------------------
(* The history of a room: GPTBot._last_n_messages, bot.py:222-284 *)

\* the largest n and the largest max_messages of a call
MaxFetch == 2

\* the events of a room as the loop tells them apart: a RoomMessageText (with
\* a body that is no command, one that starts with "!", one that starts with
\* "!gptbot ignoreolder"), a RoomMessageNotice, a RoomMessageMedia, any other
\* event, and a MegolmEvent, which hides one of them
ClearKinds == {"text", "command", "ignoreolder", "notice", "media", "other"}
FetchedKinds ==
    [type : ClearKinds, megolm : {FALSE}]
        \cup [type : {"undecryptable", "ignoreolder"}, megolm : {TRUE}]

\* room_messages(start=sync_token, limit=limit) goes back from the sync token:
\* at most limit events, the most recent first; ts is the place of the event in
\* the room
Chunks(limit) ==
    UNION {{[i \in 1..len |-> [ts |-> len + 1 - i,
                                type |-> kinds[i].type,
                                megolm |-> kinds[i].megolm]] :
              kinds \in [1..len -> FetchedKinds]} : len \in 0..limit}

\* messages[::-1]
RECURSIVE Reversed(_)
Reversed(s) == IF s = <<>> THEN <<>> ELSE Append(Reversed(Tail(s)), Head(s))

\* n = n or self.max_messages; 0 stands for a call that gives no n
EffectiveN(n, max_messages) == IF n = 0 THEN max_messages ELSE n

\* a call _last_n_messages(room, n, ignore_bot_commands) of a bot with its
\* max_messages
InitFetch ==
    /\ Idle
    /\ budget = NoBudget
    /\ retry = NoRetry
    /\ toolrun = NoToolRun
    /\ tasks = NoTasks
    /\ assembly = NoAssembly
    /\ query = NoQuery
    /\ callback = NoCallback
    /\ \E n \in 0..MaxFetch, max_messages \in 1..MaxFetch,
          ignore_bot_commands \in BOOLEAN :
         fetch = [pc |-> "room_messages",
                  n |-> EffectiveN(n, max_messages),
                  ignore_bot_commands |-> ignore_bot_commands,
                  chunk |-> <<>>,
                  next |-> 1,
                  messages |-> <<>>,
                  result |-> <<>>]

FetchStep(f) ==
    /\ fetch' = f
    /\ UNCHANGED <<cfg, heap, stack, status, returned, provider, sent, trace,
                   budget, retry, toolrun, tasks, assembly, query, callback>>

\* bot.py:232-242: the request; a RoomMessagesError is raised as an Exception
RoomMessages ==
    /\ fetch.pc = "room_messages"
    /\ \/ FetchStep([fetch EXCEPT !.pc = "raised"])
       \/ \E chunk \in Chunks(2 * fetch.n) :
            FetchStep([fetch EXCEPT !.chunk = chunk, !.pc = "loop"])

\* one event of the chunk with `continue` where the code has `break` at the
\* command
VisitSkippingTheCommand(f, event) ==
    LET seen == [f EXCEPT !.next = @ + 1]
        kept == [seen EXCEPT !.messages = Append(@, event)] IN
    IF Len(f.messages) >= f.n
    THEN [f EXCEPT !.pc = "return"]
    ELSE IF event.megolm /\ event.type = "undecryptable"
    THEN seen
    ELSE CASE event.type = "ignoreolder" -> seen
           [] event.type = "command" ->
                IF f.ignore_bot_commands THEN seen ELSE kept
           [] event.type = "text" -> kept
           [] event.type = "notice" ->
                IF f.ignore_bot_commands THEN seen ELSE kept
           [] event.type = "media" -> kept
           [] OTHER -> seen

\* bot.py:244-278: one event of the chunk.  246 leaves the loop at n messages;
\* 257-264 an event that cannot be decrypted is passed over, one that can is
\* handled as what it hides; 268 leaves the loop at the command
Visit(f, event) ==
    LET seen == [f EXCEPT !.next = @ + 1]
        kept == [seen EXCEPT !.messages = Append(@, event)] IN
    IF Len(f.messages) >= f.n
    THEN [f EXCEPT !.pc = "return"]
    ELSE IF event.megolm /\ event.type = "undecryptable"
    THEN seen
    ELSE CASE event.type = "ignoreolder" -> [f EXCEPT !.pc = "return"]
           [] event.type = "command" ->
                IF f.ignore_bot_commands THEN seen ELSE kept
           [] event.type = "text" -> kept
           [] event.type = "notice" ->
                IF f.ignore_bot_commands THEN seen ELSE kept
           [] event.type = "media" -> kept
           [] OTHER -> seen

\* bot.py:244: for event in response.chunk
VisitEvent ==
    /\ fetch.pc = "loop"
    /\ IF fetch.next > Len(fetch.chunk)
       THEN FetchStep([fetch EXCEPT !.pc = "return"])
       ELSE FetchStep(Visit(fetch, fetch.chunk[fetch.next]))

\* bot.py:283-284
ReturnMessages ==
    /\ fetch.pc = "return"
    /\ FetchStep([fetch EXCEPT !.result = Reversed(fetch.messages),
                               !.pc = "returned"])

NextFetch ==
    \/ RoomMessages
    \/ VisitEvent
    \/ ReturnMessages

SpecFetch == InitFetch /\ [][NextFetch]_vars

\* the places in the chunk of the "!gptbot ignoreolder" commands
Commands == {k \in DOMAIN fetch.chunk : fetch.chunk[k].type = "ignoreolder"}

\* the most recent of them: the chunk has the most recent event first
MostRecentCommand == CHOOSE k \in Commands : \A other \in Commands : k <= other

\* C37: _last_n_messages returns at most n messages, the older before the more
\* recent, all of them more recent than the most recent "!gptbot ignoreolder"
\* command of the fetched events
C37_AtMostNRecentInOrder ==
    fetch.pc = "returned" =>
        /\ Len(fetch.result) <= fetch.n
        /\ \A i, j \in DOMAIN fetch.result :
             i < j => fetch.result[i].ts < fetch.result[j].ts
        /\ Commands # {} =>
             \A i \in DOMAIN fetch.result :
                fetch.result[i].ts > fetch.chunk[MostRecentCommand].ts

\* a call has returned two messages of a chunk that has a command, and older
\* messages, after them
C37_Witness ==
    /\ fetch.pc = "returned"
    /\ Len(fetch.result) = 2
    /\ Commands # {}
    /\ MostRecentCommand < Len(fetch.chunk)
    /\ fetch.chunk[Len(fetch.chunk)].type = "text"

----------------------------------------------------------------------------
(* Admitting an event: GPTBot.user_is_allowed and GPTBot.event_callback,
   bot.py:432-475 *)

\* the events one bot is given
MaxEvents == 2

\* the most users a room has
MaxUsers == 3

\* A Matrix id, "@localpart:server", as the fields that ":" separates; the name
\* of a server is a host, or a host and a port
BotUserId == <<"@gptbot", "a.org">>
Users ==
    {BotUserId,
     <<"@alice", "a.org">>,
     <<"@mallory", "a.org", "8448">>,
     <<"@bob", "b.org">>}

\* what AllowedUsers of the configuration may list: ids, and wildcards of both
\* forms for a server
AllowedEntries ==
    {<<"@alice", "a.org">>,
     <<"*", "a.org">>,
     <<"@*", "a.org">>,
     <<"@*", "a.org", "8448">>,
     <<"*", "b.org">>}

\* the server of an id: all of it after the local part
ServerOf(user_id) == Tail(user_id)

\* user_id.split(':')[1]
SplitSecond(user_id) == user_id[2]

\* bot.py:432-450
user_is_allowed(allowed_users, user_id) ==
    IF allowed_users # {}
    THEN \/ user_id \in allowed_users
         \/ <<"*", SplitSecond(user_id)>> \in allowed_users
         \/ <<"@*", SplitSecond(user_id)>> \in allowed_users
    ELSE TRUE

\* a bot with its AllowedUsers, before its first event
InitCallback ==
    /\ Idle
    /\ budget = NoBudget
    /\ retry = NoRetry
    /\ toolrun = NoToolRun
    /\ tasks = NoTasks
    /\ assembly = NoAssembly
    /\ query = NoQuery
    /\ fetch = NoFetch
    /\ \E allowed_users \in SUBSET AllowedEntries :
         callback = [pc |-> "listening",
                     allowed_users |-> allowed_users,
                     handled |-> <<>>]

\* bot.py:452-475: one event, sent by sender to a room of so many users; task:
\* asyncio.create_task(self._event_callback(room, event)) was called; notice:
\* the refusal was sent to the room
event_callback(sender, users) ==
    IF sender = BotUserId
    THEN [sender |-> sender, users |-> users, task |-> FALSE, notice |-> FALSE]
    ELSE IF ~user_is_allowed(callback.allowed_users, sender)
    THEN [sender |-> sender, users |-> users, task |-> FALSE,
          notice |-> (users = 2)]
    ELSE [sender |-> sender, users |-> users, task |-> TRUE, notice |-> FALSE]

EventCallback ==
    /\ callback.pc = "listening"
    /\ Len(callback.handled) < MaxEvents
    /\ \E sender \in Users, users \in 1..MaxUsers :
         callback' = [callback EXCEPT
                        !.handled = Append(@, event_callback(sender, users))]
    /\ UNCHANGED <<cfg, heap, stack, status, returned, provider, sent, trace,
                   budget, retry, toolrun, tasks, assembly, query, fetch>>

NextCallback ==
    \/ EventCallback

SpecCallback == InitCallback /\ [][NextCallback]_vars

\* the sender is in the list by its id or by a wildcard for its server
Listed(sender) ==
    \/ sender \in callback.allowed_users
    \/ <<"*">> \o ServerOf(sender) \in callback.allowed_users
    \/ <<"@*">> \o ServerOf(sender) \in callback.allowed_users

Disallowed(sender) == callback.allowed_users # {} /\ ~Listed(sender)

\* C36: no task is started for an event of the bot itself, nor for one of a
\* sender that a non-empty AllowedUsers lists neither by its id nor by a wildcard
\* for its server; the refusal is sent to rooms of two users only, and to
\* senders that are not allowed only
C36_OnlyAllowedSendersStartATask ==
    \A k \in DOMAIN callback.handled :
        LET e == callback.handled[k] IN
        /\ e.task => (e.sender # BotUserId /\ ~Disallowed(e.sender))
        /\ e.notice => (e.users = 2 /\ ~e.task)

============================================================================
